---- MODULE Spec2Model ----
(***************************************************************************)
(* State-machine model of the nocturne "stealth" on-chain program: the     *)
(* fixed-denomination privacy pools (incremental Merkle tree, root         *)
(* history, nullifier records), the withdrawal entry points, the           *)
(* commit-reveal wrapper and the keeper intents.                           *)
(*                                                                         *)
(* Conventions                                                             *)
(*  - One action per instruction handler.  An instruction is a Solana      *)
(*    transaction: it either completes or is rolled back as a whole, so a  *)
(*    rejected instruction changes nothing.  X_result gives the outcome of *)
(*    handler X in the current state: "Ok" or the error it ends with.      *)
(*  - Anchor account constraints are part of the handler that carries      *)
(*    them: `init` creates the account and fails when it already exists.   *)
(*  - 32-byte digests are sequences of integers.  Poseidon, SHA-256 and    *)
(*    Keccak are collision-free term constructors (prefix encoding).       *)
(*  - Lamport amounts are counted in units of LamportScale lamports; every *)
(*    amount the model uses is a multiple of it.  A pool account starts    *)
(*    with PoolRentReserve, the rent paid when it was created.             *)
(*  - A CPI system transfer out of a pool is a ledger debit that fails     *)
(*    only for lack of funds.                                              *)
(***************************************************************************)
EXTENDS Integers, Sequences, FiniteSets, TLC

VARIABLES
    pool,          \* denomination -> PrivacyPool account data
    lamports,      \* account -> balance
    nullifier,     \* set of existing NullifierRecord PDAs (their seeds)
    leaf_account,  \* set of existing CommitmentLeaf PDAs (their seeds)
    commitment,    \* commitment_hash -> WithdrawalCommitment | NoAccount (one owner)
    intent,        \* intent id -> KeeperIntent | NoAccount
    now,           \* Clock::unix_timestamp
    production,    \* whether the build has feature "production"
    inflight,      \* transactions submitted and not yet processed
    deposited,     \* history: denomination -> commitments accepted, in order
    saved,         \* history: denomination -> roots pushed by save_root_to_history
    spent,         \* history: denomination -> notes spent (entry point, nullifier)
    last           \* the last instruction that completed

vars == <<pool, lamports, nullifier, leaf_account, commitment, intent, now,
          production, inflight, deposited, saved, spent, last>>

----------------------------------------------------------------------------
(* Program constants *)

ROOT_HISTORY_SIZE == 30
MERKLE_DEPTH == 20
\* Amounts are counted in units of 10^5 lamports (TLC's integers are 32 bits
\* wide and 100 SOL is 10^11 lamports); every amount of the model is a
\* whole number of units.
LamportScale == 10 ^ 5
DENOMINATION_1_SOL == 1000000000 \div LamportScale
DENOMINATION_10_SOL == 10 * DENOMINATION_1_SOL
DEFAULT_FEE_BPS == 10
ABSOLUTE_MIN_DELAY == 1800
ABSOLUTE_MAX_DELAY == 604800
SECONDS_PER_HOUR == 3600
MIN_KEEPER_FEE == 1000000 \div LamportScale

----------------------------------------------------------------------------
(* Bounds of the model *)

\* leaves over all pools in the specifications with withdrawals
MaxLeaves == 2
\* leaves of the pool in the root-history specification
MaxHistoryLeaves == 36
\* commitments of one batch_deposit
MaxBatch == 2
\* batch_deposit calls into the pool at the seed alone
MaxBatchCalls == 31
\* batches with fewer than MaxBatch commitments
MaxShortBatches == 1
\* deposits of the specification that runs a deposit write by write
MaxSteppedDeposits == 3
\* leaves of each pool in the specification with two pools fed alike
MaxTwinLeaves == 3
\* inserting calls into the 1 SOL pool next to the batches
MaxTransfers == 1
\* the clock of the specification of the delay bounds runs to MaxDelayHours hours
MaxDelayHours == 3
\* leaves the specification of the full tree lets in past the capacity
MaxOverCapacity == 3
\* public inputs handed to verify_groth16 at a time
MaxPublicInputs == 4
\* the clock runs to MaxHours hours (plus one second)
MaxHours == 2
\* withdrawal commitments open at a time
MaxCommitments == 1
\* deposits whose root the depositor supplies, in the root-history specification
MaxSuppliedRoots == 2

----------------------------------------------------------------------------
(* Digests *)

NodeTag == 0 - 1000
ShaTag == 0 - 2000
KeccakTag == 0 - 3000
ZERO32 == <<0>>
Fe(k) == <<k>>

\* Poseidon::hash2 as a term constructor.  The digest of two equal
\* zero-subtree digests is written <<-(level+1)>>, so that the digests of
\* the empty subtrees stay one token long.
poseidon_hash_2(left, right) ==
    IF left = right /\ Len(left) = 1 /\ left[1] <= 0 /\ left[1] > NodeTag
    THEN <<left[1] - 1>>
    ELSE <<NodeTag>> \o left \o right

merkle_hash_2(left, right) == poseidon_hash_2(left, right)

poseidon_hash_4(a, b, c, d) ==
    poseidon_hash_2(poseidon_hash_2(a, b), poseidon_hash_2(c, d))

compute_commitment(nullifier_secret, secret, amount, recipient) ==
    poseidon_hash_4(nullifier_secret, secret, Fe(amount), recipient)

compute_nullifier_hash(nullifier_secret) ==
    poseidon_hash_2(nullifier_secret, ZERO32)

RECURSIVE ZeroHash(_)
ZeroHash(level) ==
    IF level = 0 THEN ZERO32
    ELSE LET below == ZeroHash(level - 1) IN merkle_hash_2(below, below)

compute_zero_hashes_poseidon == [i \in 0..MERKLE_DEPTH |-> ZeroHash(i)]

----------------------------------------------------------------------------
(* PrivacyPool account *)

Denominations == {DENOMINATION_1_SOL, DENOMINATION_10_SOL}

\* The pool account at the address derived from the seed alone, with no
\* denomination in it (BatchDeposit).  initialize_pool always puts the
\* denomination into the seeds, so no handler creates this account.
SinglePool == 0

PoolKey(d) ==
    IF d = SinglePool THEN "pool"
    ELSE IF d = DENOMINATION_1_SOL THEN "pool_1" ELSE "pool_10"

\* The pool as initialize_pool leaves it.
InitialPool(d) ==
    [ denomination       |-> d,
      merkle_root        |-> compute_zero_hashes_poseidon[MERKLE_DEPTH],
      next_leaf_index    |-> 0,
      filled_subtrees    |-> [i \in 0..(MERKLE_DEPTH - 1) |-> compute_zero_hashes_poseidon[i]],
      total_deposited    |-> 0,
      total_withdrawn    |-> 0,
      deposit_count      |-> 0,
      withdrawal_count   |-> 0,
      is_active          |-> TRUE,
      root_history       |-> [i \in 0..(ROOT_HISTORY_SIZE - 1) |-> ZERO32],
      root_history_index |-> 0 ]

\* is_valid_root without the test that sets the unwritten slots apart.
is_valid_root_any_slot(p, root) ==
    \/ p.merkle_root = root
    \/ \E i \in 0..(ROOT_HISTORY_SIZE - 1) : p.root_history[i] = root

is_valid_root(p, root) ==
    \/ p.merkle_root = root
    \/ \E i \in 0..(ROOT_HISTORY_SIZE - 1) :
          p.root_history[i] = root /\ p.root_history[i] # ZERO32

\* save_root_to_history that stores nothing.
save_root_to_history_skipped(p) == p

\* save_root_to_history that never moves on to the next slot.
save_root_to_history_fixed_slot(p) ==
    [p EXCEPT !.root_history[p.root_history_index] = p.merkle_root]

save_root_to_history(p) ==
    [p EXCEPT !.root_history[p.root_history_index] = p.merkle_root,
              !.root_history_index = (p.root_history_index + 1) % ROOT_HISTORY_SIZE]

\* The loop of compute_new_root_zc / compute_merkle_root_zc from level i on:
\* the pool with its filled subtrees updated, and the hash carried upward.
RECURSIVE MerkleLoop(_, _, _, _)
MerkleLoop(p, i, current_index, current_hash) ==
    IF i = MERKLE_DEPTH THEN [pool |-> p, hash |-> current_hash]
    ELSE IF current_index % 2 = 0
         THEN MerkleLoop([p EXCEPT !.filled_subtrees[i] = current_hash], i + 1,
                         current_index \div 2,
                         merkle_hash_2(current_hash, compute_zero_hashes_poseidon[i]))
         ELSE MerkleLoop(p, i + 1, current_index \div 2,
                         merkle_hash_2(p.filled_subtrees[i], current_hash))

compute_new_root_zc(p, c, leaf_index) == MerkleLoop(p, 0, leaf_index, c)

\* insert_leaf_zc: the tree insertion without the push to the history.
insert_leaf_zc(p, c) ==
    LET r == compute_new_root_zc(p, c, p.next_leaf_index)
    IN  [r.pool EXCEPT !.merkle_root = r.hash,
                       !.next_leaf_index = p.next_leaf_index + 1]

insert_commitment_to_tree_zc(p, c) == insert_leaf_zc(save_root_to_history(p), c)

insert_transfer_commitments_zc(p, c1, c2) ==
    insert_leaf_zc(insert_leaf_zc(save_root_to_history(p), c1), c2)

\* The loop of batch_insert_commitments_zc.
RECURSIVE InsertEach(_, _)
InsertEach(p, commitments) ==
    IF commitments = <<>> THEN p
    ELSE InsertEach(insert_leaf_zc(p, Head(commitments)), Tail(commitments))

\* batch_insert_commitments_zc without the push to the history.
batch_insert_commitments_zc_no_push(p, commitments) == InsertEach(p, commitments)

batch_insert_commitments_zc(p, commitments) ==
    InsertEach(save_root_to_history(p), commitments)

----------------------------------------------------------------------------
(* The callers' side: accounts, notes, proofs *)

NoAccount == [exists |-> FALSE]
EmptyKey == <<>>

Recipients == {"r1", "r2"}
Wallets == Recipients \cup {"relayer", "keeper", "fee_recipient"}
Accounts == {PoolKey(d) : d \in Denominations} \cup Wallets

\* Rent-exempt reserve the payer puts into the pool account at `init`.
PoolRentReserve == 129

\* A 32-byte public key read as a big-endian integer q * r + rem, r the BN254
\* scalar field modulus.
KeyBytes(k) ==
    CASE k = "r1" -> [q |-> 0, rem |-> 101]
      [] k = "r2" -> [q |-> 1, rem |-> 102]
      [] OTHER    -> [q |-> 0, rem |-> 100]

\* A u128 half of a 32-byte value, scaled down to five bits.
LimbBase == 2 ^ 5

\* The two halves of the modulus, 0x30644e72e131a029b85045b68181585d and
\* 0x2833e84879b9709143e1f593f0000001, scaled down alike: as in the source
\* the modulus goes five times into the two-limb range and not six times.
MOD_HIGH == 6
MOD_LOW == 1

FieldModulus == MOD_HIGH * LimbBase + MOD_LOW

\* The loop over k = 0..11 of verify_field_reduction: diff against the
\* running multiple, which wraps in its two limbs as wrapping_add does.
RECURSIVE DiffIsMultiple(_, _, _, _, _)
DiffIsMultiple(diff_high, diff_low, mult_high, mult_low, k) ==
    IF k >= 12 THEN FALSE
    ELSE IF diff_high = mult_high /\ diff_low = mult_low THEN TRUE
    ELSE LET carry == IF mult_low + MOD_LOW >= LimbBase THEN 1 ELSE 0
         IN  DiffIsMultiple(diff_high, diff_low,
                            (mult_high + MOD_HIGH + carry) % LimbBase,
                            (mult_low + MOD_LOW) % LimbBase, k + 1)

\* verify_field_reduction on the two limbs of pubkey (the value
\* q * modulus + rem) and of reduced.
verify_field_reduction(pubkey, reduced) ==
    LET pk == pubkey.q * FieldModulus + pubkey.rem
        pk_high == pk \div LimbBase
        pk_low == pk % LimbBase
        rd_high == reduced[1] \div LimbBase
        rd_low == reduced[1] % LimbBase
        reduced_valid == IF rd_high < MOD_HIGH THEN TRUE
                         ELSE IF rd_high > MOD_HIGH THEN FALSE
                         ELSE rd_low < MOD_LOW
        pubkey_ge_reduced == IF pk_high > rd_high THEN TRUE
                             ELSE IF pk_high < rd_high THEN FALSE
                             ELSE pk_low >= rd_low
        borrow == IF pk_low < rd_low THEN 1 ELSE 0
        diff_low == (pk_low + LimbBase - rd_low) % LimbBase
        diff_high == (pk_high + 2 * LimbBase - rd_high - borrow) % LimbBase
    IN  /\ reduced_valid
        /\ pubkey_ge_reduced
        /\ DiffIsMultiple(diff_high, diff_low, 0, 0, 0)

\* Notes a depositor may hold: nullifier secret, secret, recipient.
NoteIds == {1, 2}
NoteNullifier(k) == Fe(10 + k)
NoteSecret(k) == Fe(20 + k)
NoteRecipient(k) == IF k = 1 THEN "r1" ELSE "r2"
NoteCommitment(k, d) ==
    compute_commitment(NoteNullifier(k), NoteSecret(k), d, Fe(KeyBytes(NoteRecipient(k)).rem))
NullifierHashes == {compute_nullifier_hash(NoteNullifier(k)) : k \in NoteIds}
Commitments(d) == {NoteCommitment(k, d) : k \in NoteIds}

\* Root of the tree that holds the given leaves, by inserting them in order.
RECURSIVE TreeOf(_)
TreeOf(leaves) ==
    IF leaves = <<>> THEN InitialPool(0)
    ELSE insert_leaf_zc(TreeOf(SubSeq(leaves, 1, Len(leaves) - 1)), leaves[Len(leaves)])

RootOfLeaves(leaves) == TreeOf(leaves).merkle_root

\* A root nobody has a tree for.
BogusRoot == Fe(999)

\* The statement of the withdrawal circuit: some note whose commitment is a
\* leaf of the tree with this root has this nullifier hash, recipient and
\* amount.  Only true statements have valid proofs (soundness).
Statement(root, nullifier_hash, recipient, amount) ==
    [merkle_root |-> root, nullifier_hash |-> nullifier_hash,
     recipient |-> recipient, amount |-> amount]

SeqsUpTo(S, n) == UNION {[1..m -> S] : m \in 0..n}

LeafUniverse == UNION {Commitments(d) : d \in Denominations}

\* Every true statement about a tree of at most MaxLeaves of these leaves.
TrueStatements ==
    UNION { { Statement(RootOfLeaves(leaves), compute_nullifier_hash(NoteNullifier(k)),
                        Fe(KeyBytes(NoteRecipient(k)).rem), d) :
              k \in {n \in NoteIds : \E i \in 1..Len(leaves) : leaves[i] = NoteCommitment(n, d)} }
            : leaves \in SeqsUpTo(LeafUniverse, MaxLeaves + 1), d \in Denominations }

Provable(stmt) == stmt \in TrueStatements

\* Groth16 proofs a caller can present for public inputs `stmt`: all-zero
\* points, a forgery, and, when the statement is true, a valid proof of it.
Groth16Proofs(stmt) ==
    {[pi |-> "zero", stmt |-> stmt], [pi |-> "forged", stmt |-> stmt]}
    \cup (IF Provable(stmt) THEN {[pi |-> "valid", stmt |-> stmt]} ELSE {})

\* verify_groth16 with the stored verification key (five IC points): false
\* for all-zero proof points, otherwise the pairing check, which holds for
\* valid proofs of exactly these public inputs.
verify_groth16(proof, public_inputs) ==
    /\ proof.pi # "zero"
    /\ proof.pi = "valid"
    /\ proof.stmt = public_inputs

\* The 32 bytes of SCALAR_FIELD_MODULUS, most significant first.
SCALAR_FIELD_MODULUS ==
    <<48, 100, 78, 114, 225, 49, 160, 41,
      184, 80, 69, 182, 129, 129, 88, 93,
      151, 129, 106, 145, 104, 113, 202, 141,
      60, 32, 140, 22, 216, 124, 253, 71>>

\* The byte-by-byte comparison of is_valid_scalar, from byte i on.
RECURSIVE is_valid_scalar_from(_, _)
is_valid_scalar_from(scalar, i) ==
    IF i > Len(SCALAR_FIELD_MODULUS) THEN FALSE
    ELSE IF scalar[i] < SCALAR_FIELD_MODULUS[i] THEN TRUE
    ELSE IF scalar[i] > SCALAR_FIELD_MODULUS[i] THEN FALSE
    ELSE is_valid_scalar_from(scalar, i + 1)

is_valid_scalar(scalar) == is_valid_scalar_from(scalar, 1)

\* What verify_groth16 returns on chain for a proof of three points, a list
\* of public inputs and a verification key with ic_len IC points: the error
\* InvalidProofInputs, or Ok(false) / Ok(true).  A point is all zero bytes
\* ("zero"), bytes the alt_bn128 calls refuse ("off_curve") or a curve
\* point; proof.pairing says whether the pairing product is one.
verify_groth16_result(proof, public_inputs, ic_len) ==
    IF Len(public_inputs) + 1 # ic_len THEN "InvalidProofInputs"
    ELSE IF \E i \in 1..Len(public_inputs) : ~is_valid_scalar(public_inputs[i])
         THEN "false"
    ELSE IF "zero" \in {proof.pi_a, proof.pi_b, proof.pi_c} THEN "false"
    ELSE IF "off_curve" \in {proof.pi_a, proof.pi_b, proof.pi_c} THEN "false"
    ELSE IF proof.pairing THEN "true"
    ELSE "false"

----------------------------------------------------------------------------
(* Bookkeeping shared by the handlers *)

\* The last instruction that completed.  root_ok: the root it
\* presented was valid for the pool; proof_ok: the proof it presented was a
\* real proof of its public inputs; hash: the commitment hash a reveal
\* recomputed from its parameters.
RevealOutcome(op, d, key, res, root_ok, proof_ok, hash) ==
    [op |-> op, d |-> d, key |-> key, res |-> res,
     root_ok |-> root_ok, proof_ok |-> proof_ok, hash |-> hash]

Outcome(op, d, key, res, root_ok, proof_ok) ==
    RevealOutcome(op, d, key, res, root_ok, proof_ok, EmptyKey)

\* The program's accounts and the histories kept about them; `inflight`
\* belongs to the runtime that delivers the transactions.
state == <<pool, lamports, nullifier, leaf_account, commitment, intent, now,
           production, deposited, saved, spent, last>>

\* A rejected instruction: the transaction is rolled back and leaves no trace.
Rejected == UNCHANGED state

Credit(bal, acct, amount) == [bal EXCEPT ![acct] = @ + amount]
Debit(bal, acct, amount) == [bal EXCEPT ![acct] = @ - amount]

LeafPda(d, c) == <<d>> \o c
NullifierPda(d, nullifier_hash) == <<d>> \o nullifier_hash
UnifiedNullifierPda(nullifier_hash) == nullifier_hash

DepositFee(amount) == (amount * DEFAULT_FEE_BPS) \div 10000

----------------------------------------------------------------------------
(* Deposits *)

private_deposit_result(d, c) ==
    IF LeafPda(d, c) \in leaf_account THEN "AccountAlreadyInUse"
    ELSE IF ~pool[d].is_active THEN "PoolNotActive"
    ELSE IF pool[d].denomination # d THEN "AmountMustMatchDenomination"
    ELSE "Ok"

private_deposit(d, c, pays_fee) ==
    LET res == private_deposit_result(d, c)
        fee == DepositFee(pool[d].denomination)
        deposit_amount == pool[d].denomination - fee
        inserted == insert_commitment_to_tree_zc(pool[d], c)
    IN  IF res # "Ok" THEN Rejected
        ELSE
        /\ lamports' = LET a == Credit(lamports, PoolKey(d), deposit_amount)
                       IN  IF fee > 0 /\ pays_fee THEN Credit(a, "fee_recipient", fee) ELSE a
        /\ pool' = [pool EXCEPT ![d] =
                      [inserted EXCEPT !.total_deposited = @ + deposit_amount,
                                       !.deposit_count = @ + 1]]
        /\ leaf_account' = leaf_account \cup {LeafPda(d, c)}
        /\ deposited' = [deposited EXCEPT ![d] = Append(@, c)]
        /\ saved' = [saved EXCEPT ![d] = Append(@, pool[d].merkle_root)]
        /\ last' = Outcome("private_deposit", d, c, "Ok", FALSE, FALSE)
        /\ UNCHANGED <<nullifier, commitment, intent, now, production, spent>>

simple_deposit_result(d, c) == private_deposit_result(d, c)

\* The caller supplies the new root; the handler stores it as it comes.
simple_deposit(d, c, merkle_root) ==
    LET res == simple_deposit_result(d, c)
        fee == DepositFee(pool[d].denomination)
        deposit_amount == pool[d].denomination - fee
        archived == save_root_to_history(pool[d])
    IN  IF res # "Ok" THEN Rejected
        ELSE
        /\ lamports' = LET a == Credit(lamports, PoolKey(d), deposit_amount)
                       IN  IF fee > 0 THEN Credit(a, "fee_recipient", fee) ELSE a
        /\ pool' = [pool EXCEPT ![d] =
                      [archived EXCEPT !.merkle_root = merkle_root,
                                       !.next_leaf_index = pool[d].next_leaf_index + 1,
                                       !.total_deposited = @ + deposit_amount,
                                       !.deposit_count = @ + 1]]
        /\ leaf_account' = leaf_account \cup {LeafPda(d, c)}
        /\ deposited' = [deposited EXCEPT ![d] = Append(@, c)]
        /\ saved' = [saved EXCEPT ![d] = Append(@, pool[d].merkle_root)]
        /\ last' = Outcome("simple_deposit", d, c, "Ok", FALSE, FALSE)
        /\ UNCHANGED <<nullifier, commitment, intent, now, production, spent>>

unified_deposit_result(d) ==
    IF d \notin {DENOMINATION_1_SOL, DENOMINATION_10_SOL} THEN "InvalidDenomination"
    ELSE IF ~pool[d].is_active THEN "PoolNotActive"
    ELSE "Ok"

\* Counts the deposit and moves the leaf index; the tree is not touched.
unified_deposit(d, c) ==
    LET res == unified_deposit_result(d)
    IN  IF res # "Ok" THEN Rejected
        ELSE
        /\ lamports' = Credit(lamports, PoolKey(d), d)
        /\ pool' = [pool EXCEPT ![d].deposit_count = @ + 1,
                                ![d].total_deposited = @ + d,
                                ![d].next_leaf_index = @ + 1]
        /\ deposited' = [deposited EXCEPT ![d] = Append(@, c)]
        /\ last' = Outcome("unified_deposit", d, c, "Ok", FALSE, FALSE)
        /\ UNCHANGED <<nullifier, leaf_account, commitment, intent, now, production,
                       saved, spent>>

\* The pool is the account at the seed alone; the handler takes the total
\* from the caller and compares it with nothing.
batch_deposit_result(commitments, total_amount) ==
    IF SinglePool \notin DOMAIN pool THEN "AccountNotInitialized"
    ELSE IF ~pool[SinglePool].is_active THEN "PoolNotActive"
    ELSE IF ~(commitments # <<>> /\ Len(commitments) <= 10) THEN "InvalidBatchSize"
    ELSE "Ok"

\* The fee is taken off the amount sent to the pool and is sent nowhere; no
\* CommitmentLeaf account is made.
batch_deposit(commitments, total_amount) ==
    LET res == batch_deposit_result(commitments, total_amount)
        d == SinglePool
        fee == DepositFee(total_amount)
        deposit_amount == total_amount - fee
        inserted == batch_insert_commitments_zc(pool[d], commitments)
    IN  IF res # "Ok" THEN Rejected
        ELSE
        /\ lamports' = Credit(lamports, PoolKey(d), deposit_amount)
        /\ pool' = [pool EXCEPT ![d] =
                      [inserted EXCEPT !.total_deposited = @ + deposit_amount,
                                       !.deposit_count = @ + Len(commitments)]]
        /\ deposited' = [deposited EXCEPT ![d] = @ \o commitments]
        /\ saved' = [saved EXCEPT ![d] = Append(@, pool[d].merkle_root)]
        /\ last' = Outcome("batch_deposit", d, Head(commitments), "Ok", FALSE, FALSE)
        /\ UNCHANGED <<nullifier, leaf_account, commitment, intent, now, production,
                       spent>>

\* The capacity of the tree; crypto/merkle.rs is not among the sources.
MAX_LEAVES == 2 ^ MERKLE_DEPTH

\* Attestations of a range proof: of another commitment, of another range,
\* older than five minutes, with an all-zero signature, well-formed with no
\* Ed25519 instruction for it, and well-formed and signed.
BulletproofAttestations == {"mismatch", "bad_range", "stale", "zero_sig", "unsigned", "signed"}

verify_bulletproof_attestation(attestation) ==
    IF attestation = "mismatch" THEN "AmountCommitmentMismatch"
    ELSE IF attestation = "bad_range" THEN "RangeProofFailed"
    ELSE IF attestation = "stale" THEN "AttestationExpired"
    ELSE IF attestation = "zero_sig" THEN "InvalidSignature"
    ELSE IF production /\ attestation = "unsigned" THEN "InvalidSignature"
    ELSE "Ok"

confidential_deposit_result(c, attestation) ==
    IF SinglePool \notin DOMAIN pool THEN "AccountNotInitialized"
    ELSE IF verify_bulletproof_attestation(attestation) # "Ok"
         THEN verify_bulletproof_attestation(attestation)
    ELSE IF ~(pool[SinglePool].next_leaf_index < MAX_LEAVES) THEN "PoolFull"
    ELSE "Ok"

\* The pool is the account at the seed alone and the lamports go to its
\* vault; the leaf is counted and written to filled_subtrees[0], the root and
\* its history stay as they are.
confidential_deposit(c, amount_lamports, attestation) ==
    LET res == confidential_deposit_result(c, attestation)
        d == SinglePool
    IN  IF res # "Ok" THEN Rejected
        ELSE
        /\ lamports' = Credit(lamports, "vault", amount_lamports)
        /\ pool' = [pool EXCEPT ![d].next_leaf_index = @ + 1,
                                ![d].filled_subtrees[0] = c]
        /\ deposited' = [deposited EXCEPT ![d] = Append(@, c)]
        /\ last' = Outcome("confidential_deposit", d, c, "Ok", FALSE, FALSE)
        /\ UNCHANGED <<nullifier, leaf_account, commitment, intent, now, production,
                       saved, spent>>

----------------------------------------------------------------------------
(* Proof checks of the oracle-attested paths *)

\* Proof bytes a caller can send: none, fewer than 64 bytes, 64 or more bytes
\* that are no proof, and a real proof of the statement.
ProofBytes == {"empty", "short", "junk", "valid"}

\* Attestations: absent, all-zero signature, matching and fresh but with no
\* Ed25519 instruction for it, matching and fresh and signed by a key the
\* caller made up.
Attestations == {"none", "zero_sig", "unsigned", "self_signed"}

verify_with_oracle_full(proof_bytes, attestation) ==
    IF attestation = "none" THEN "MissingAttestation"
    ELSE IF attestation \in {"zero_sig", "unsigned"} THEN "InvalidSignature"
    ELSE "Ok"

verify_proof_with_sysvar(proof_bytes, attestation) ==
    IF proof_bytes = "empty" THEN "InvalidProof"
    ELSE IF ~production
         THEN IF proof_bytes = "short" THEN "InvalidProof"
              ELSE IF attestation = "zero_sig" THEN "InvalidSignature"
              ELSE "Ok"
         ELSE verify_with_oracle_full(proof_bytes, attestation)

verify_transfer_proof(proof_bytes, attestation, nullifier_hash, new_commitment) ==
    IF ~production
    THEN IF proof_bytes = "empty" THEN "InvalidProof"
         ELSE IF nullifier_hash = ZERO32 \/ new_commitment = ZERO32
              THEN "InvalidProofInputs"
              ELSE "Ok"
    ELSE verify_proof_with_sysvar(proof_bytes, attestation)

----------------------------------------------------------------------------
(* Withdrawals from a fixed-denomination pool *)

\* Pool pays `amount`; the recipient gets it less the relayer's fee.
transfer_withdrawal(bal, d, recipient, amount, relayer_fee) ==
    LET amount_after_fee == IF relayer_fee > amount THEN 0 ELSE amount - relayer_fee
        b1 == Debit(bal, PoolKey(d), amount)
        b2 == Credit(b1, recipient, amount_after_fee)
    IN  IF relayer_fee > 0 THEN Credit(b2, "relayer", relayer_fee) ELSE b2

\* The handlers write the lamports themselves, and the runtime fails an
\* instruction after which the lamports of its accounts do not add up to
\* what they were: the pool gives `amount`, the others get this much.
withdrawal_balanced(amount, relayer_fee) ==
    (IF relayer_fee > amount THEN 0 ELSE amount - relayer_fee) + relayer_fee = amount

\* private_withdraw with the nullifier account opened init_if_needed.
private_withdraw_result_init_if_needed(d, root, nullifier_hash, commitment_ok, proof_bytes, attestation) ==
    IF ~pool[d].is_active THEN "PoolNotActive"
    ELSE IF pool[d].denomination # d THEN "AmountMustMatchDenomination"
    ELSE IF ~is_valid_root(pool[d], root) THEN "InvalidMerkleRoot"
    ELSE IF ~commitment_ok THEN "CommitmentMismatch"
    ELSE IF verify_proof_with_sysvar(proof_bytes, attestation) # "Ok"
         THEN verify_proof_with_sysvar(proof_bytes, attestation)
    ELSE IF lamports[PoolKey(d)] < pool[d].denomination THEN "InsufficientPoolBalance"
    ELSE "Ok"

private_withdraw_result(d, root, nullifier_hash, commitment_ok, proof_bytes, attestation) ==
    IF NullifierPda(d, nullifier_hash) \in nullifier THEN "AccountAlreadyInUse"
    ELSE IF ~pool[d].is_active THEN "PoolNotActive"
    ELSE IF pool[d].denomination # d THEN "AmountMustMatchDenomination"
    ELSE IF ~is_valid_root(pool[d], root) THEN "InvalidMerkleRoot"
    ELSE IF ~commitment_ok THEN "CommitmentMismatch"
    ELSE IF verify_proof_with_sysvar(proof_bytes, attestation) # "Ok"
         THEN verify_proof_with_sysvar(proof_bytes, attestation)
    ELSE IF lamports[PoolKey(d)] < pool[d].denomination THEN "InsufficientPoolBalance"
    ELSE "Ok"

private_withdraw(d, root, nullifier_hash, recipient, commitment_ok, proof_bytes, attestation, relayer_fee) ==
    LET res == private_withdraw_result(d, root, nullifier_hash, commitment_ok,
                                       proof_bytes, attestation)
        root_ok == is_valid_root(pool[d], root)
        proof_ok == proof_bytes = "valid"
        amount == pool[d].denomination
    IN  IF res # "Ok" \/ ~withdrawal_balanced(amount, relayer_fee)
        THEN Rejected
        ELSE
        /\ nullifier' = nullifier \cup {NullifierPda(d, nullifier_hash)}
        /\ lamports' = transfer_withdrawal(lamports, d, recipient, amount, relayer_fee)
        /\ pool' = [pool EXCEPT ![d].total_withdrawn = @ + amount,
                                ![d].withdrawal_count = @ + 1]
        /\ spent' = [spent EXCEPT ![d] =
                        Append(@, [op |-> "private_withdraw", key |-> nullifier_hash])]
        /\ last' = Outcome("private_withdraw", d, nullifier_hash, "Ok", root_ok, proof_ok)
        /\ UNCHANGED <<leaf_account, commitment, intent, now, production, deposited, saved>>

\* verified_withdraw with the nullifier account opened init_if_needed.
verified_withdraw_result_init_if_needed(d, public_inputs, proof, recipient) ==
    IF ~pool[d].is_active THEN "PoolNotActive"
    ELSE IF pool[d].denomination # d THEN "AmountMustMatchDenomination"
    ELSE IF ~is_valid_root(pool[d], public_inputs.merkle_root) THEN "InvalidMerkleRoot"
    ELSE IF public_inputs.amount # d THEN "AmountMustMatchDenomination"
    ELSE IF ~verify_field_reduction(KeyBytes(recipient), public_inputs.recipient)
         THEN "InvalidRecipient"
    ELSE IF ~verify_groth16(proof, public_inputs) THEN "InvalidProof"
    ELSE IF lamports[PoolKey(d)] < pool[d].denomination THEN "InsufficientPoolBalance"
    ELSE "Ok"

verified_withdraw_result(d, public_inputs, proof, recipient) ==
    IF NullifierPda(d, public_inputs.nullifier_hash) \in nullifier THEN "AccountAlreadyInUse"
    ELSE IF ~pool[d].is_active THEN "PoolNotActive"
    ELSE IF pool[d].denomination # d THEN "AmountMustMatchDenomination"
    ELSE IF ~is_valid_root(pool[d], public_inputs.merkle_root) THEN "InvalidMerkleRoot"
    ELSE IF public_inputs.amount # d THEN "AmountMustMatchDenomination"
    ELSE IF ~verify_field_reduction(KeyBytes(recipient), public_inputs.recipient)
         THEN "InvalidRecipient"
    ELSE IF ~verify_groth16(proof, public_inputs) THEN "InvalidProof"
    ELSE IF lamports[PoolKey(d)] < pool[d].denomination THEN "InsufficientPoolBalance"
    ELSE "Ok"

verified_withdraw(d, public_inputs, proof, recipient, relayer_fee) ==
    LET res == verified_withdraw_result(d, public_inputs, proof, recipient)
        root_ok == is_valid_root(pool[d], public_inputs.merkle_root)
        proof_ok == proof.pi = "valid" /\ proof.stmt = public_inputs
        amount == pool[d].denomination
    IN  IF res # "Ok" \/ ~withdrawal_balanced(amount, relayer_fee)
        THEN Rejected
        ELSE
        /\ nullifier' = nullifier \cup {NullifierPda(d, public_inputs.nullifier_hash)}
        /\ lamports' = transfer_withdrawal(lamports, d, recipient, amount, relayer_fee)
        /\ pool' = [pool EXCEPT ![d].total_withdrawn = @ + amount,
                                ![d].withdrawal_count = @ + 1]
        /\ spent' = [spent EXCEPT ![d] =
                        Append(@, [op |-> "verified_withdraw",
                                   key |-> public_inputs.nullifier_hash])]
        /\ last' = Outcome("verified_withdraw", d, public_inputs.nullifier_hash, "Ok",
                           root_ok, proof_ok)
        /\ UNCHANGED <<leaf_account, commitment, intent, now, production, deposited, saved>>

private_transfer_result(d, root, nullifier_hash, new_commitment, proof_bytes, attestation) ==
    IF NullifierPda(d, nullifier_hash) \in nullifier THEN "AccountAlreadyInUse"
    ELSE IF ~pool[d].is_active THEN "PoolNotActive"
    ELSE IF pool[d].denomination # d THEN "AmountMustMatchDenomination"
    ELSE IF ~is_valid_root(pool[d], root) THEN "InvalidMerkleRoot"
    ELSE verify_transfer_proof(proof_bytes, attestation, nullifier_hash, new_commitment)

private_transfer(d, root, nullifier_hash, new_commitment, change_commitment, proof_bytes, attestation) ==
    LET res == private_transfer_result(d, root, nullifier_hash, new_commitment,
                                       proof_bytes, attestation)
        root_ok == is_valid_root(pool[d], root)
        proof_ok == proof_bytes = "valid"
    IN  IF res # "Ok"
        THEN Rejected
        ELSE
        /\ nullifier' = nullifier \cup {NullifierPda(d, nullifier_hash)}
        /\ pool' = [pool EXCEPT ![d] =
                      insert_transfer_commitments_zc(pool[d], new_commitment,
                                                     change_commitment)]
        /\ deposited' = [deposited EXCEPT ![d] =
                            Append(Append(@, new_commitment), change_commitment)]
        /\ saved' = [saved EXCEPT ![d] = Append(@, pool[d].merkle_root)]
        /\ spent' = [spent EXCEPT ![d] =
                        Append(@, [op |-> "private_transfer", key |-> nullifier_hash])]
        /\ last' = Outcome("private_transfer", d, nullifier_hash, "Ok", root_ok, proof_ok)
        /\ UNCHANGED <<lamports, leaf_account, commitment, intent, now, production>>

----------------------------------------------------------------------------
(* Unified withdrawal: nullifier account seeded by the hash alone *)

\* System-program transfer out of `from`: fails when the account holds less.
CanPay(bal, from, amount) == bal[from] >= amount

\* The unified paths debit the pool by what the recipient gets and then by
\* the relayer's fee.
unified_transfer(bal, d, recipient, relayer_fee) ==
    LET recipient_amount == IF relayer_fee > d THEN 0 ELSE d - relayer_fee
        b1 == Credit(Debit(bal, PoolKey(d), recipient_amount), recipient, recipient_amount)
    IN  IF relayer_fee > 0
        THEN Credit(Debit(b1, PoolKey(d), relayer_fee), "relayer", relayer_fee)
        ELSE b1

UnifiedDebit(d, relayer_fee) == (IF relayer_fee > d THEN 0 ELSE d - relayer_fee) + relayer_fee

unified_withdraw_result(d, root, nullifier_hash, address_ok, relayer_fee) ==
    IF UnifiedNullifierPda(nullifier_hash) \in nullifier THEN "AccountAlreadyInUse"
    ELSE IF ~pool[d].is_active THEN "PoolNotActive"
    ELSE IF pool[d].total_deposited - pool[d].total_withdrawn < d
         THEN "InsufficientPoolBalance"
    ELSE IF ~is_valid_root(pool[d], root) THEN "InvalidMerkleRoot"
    ELSE IF ~address_ok THEN "AddressMismatch"
    ELSE IF relayer_fee > 0 /\ relayer_fee > d \div 10 THEN "RelayerFeeTooHigh"
    ELSE IF ~CanPay(lamports, PoolKey(d), UnifiedDebit(d, relayer_fee))
         THEN "LamportUnderflow"
    ELSE "Ok"

\* proof_data travels in the instruction and is never looked at.
unified_withdraw(d, root, nullifier_hash, recipient, address_ok, proof_data, relayer_fee) ==
    LET res == unified_withdraw_result(d, root, nullifier_hash, address_ok, relayer_fee)
        root_ok == is_valid_root(pool[d], root)
        proof_ok == proof_data = "valid"
    IN  IF res # "Ok"
        THEN Rejected
        ELSE
        /\ pool' = [pool EXCEPT ![d].withdrawal_count = @ + 1,
                                ![d].total_withdrawn = @ + d]
        /\ nullifier' = nullifier \cup {UnifiedNullifierPda(nullifier_hash)}
        /\ lamports' = unified_transfer(lamports, d, recipient, relayer_fee)
        /\ spent' = [spent EXCEPT ![d] =
                        Append(@, [op |-> "unified_withdraw", key |-> nullifier_hash])]
        /\ last' = Outcome("unified_withdraw", d, nullifier_hash, "Ok", root_ok, proof_ok)
        /\ UNCHANGED <<leaf_account, commitment, intent, now, production, deposited, saved>>

----------------------------------------------------------------------------
(* Keeper intents *)

DENOMINATION_0_1_SOL == 100000000 \div LamportScale
DEFAULT_DENOMINATIONS ==
    {DENOMINATION_0_1_SOL * k : k \in {1, 5, 10, 50, 100, 500, 1000, 5000, 10000}}
is_valid_denomination(denomination) == denomination \in DEFAULT_DENOMINATIONS

IntentIds == {1}
MaxTx == 2
TxIds == 1..MaxTx
NoTx ==
    [status |-> "none", op |-> "", d |-> 0, nh |-> EmptyKey, root |-> EmptyKey,
     overlap |-> {}, res |-> ""]

\* can_execute with no end of the window.
KeeperIntent_can_execute_no_window_end(it, current_timestamp) ==
    /\ ~it.executed
    /\ current_timestamp >= it.window_start

KeeperIntent_can_execute(it, current_timestamp) ==
    /\ ~it.executed
    /\ current_timestamp >= it.window_start
    /\ current_timestamp <= it.window_end

submit_keeper_intent_result(intent_id, window_start_offset_hours, window_duration_hours, denomination, keeper_fee) ==
    IF intent[intent_id].exists THEN "AccountAlreadyInUse"
    ELSE IF window_start_offset_hours < 1 THEN "WindowTooSoon"
    ELSE IF ~(window_duration_hours >= 1 /\ window_duration_hours <= 168)
         THEN "InvalidWindowDuration"
    ELSE IF keeper_fee < MIN_KEEPER_FEE THEN "KeeperFeeTooLow"
    ELSE IF ~is_valid_denomination(denomination) THEN "InvalidDenomination"
    ELSE "Ok"

submit_keeper_intent(intent_id, window_start_offset_hours, window_duration_hours, denomination, keeper_fee) ==
    LET res == submit_keeper_intent_result(intent_id, window_start_offset_hours,
                                           window_duration_hours, denomination, keeper_fee)
        window_start == now + window_start_offset_hours * SECONDS_PER_HOUR
        window_end == window_start + window_duration_hours * SECONDS_PER_HOUR
    IN  IF res # "Ok"
        THEN Rejected
        ELSE
        /\ intent' = [intent EXCEPT ![intent_id] =
                        [exists |-> TRUE, window_start |-> window_start,
                         window_end |-> window_end, denomination |-> denomination,
                         keeper_fee |-> keeper_fee, executed |-> FALSE]]
        /\ last' = Outcome("submit_keeper_intent", denomination, <<intent_id>>, "Ok",
                           FALSE, FALSE)
        /\ UNCHANGED <<pool, lamports, nullifier, leaf_account, commitment, now,
                       production, deposited, saved, spent>>

\* The keeper's 64-byte attestation: all zero, bytes that are no signature of
\* the keeper, or the keeper's own signature over the message.
KeeperAttestations == {"zero", "unsigned", "keeper_signed"}

verify_keeper_attestation(proof_attestation) ==
    IF production
    THEN IF proof_attestation = "keeper_signed" THEN "Ok" ELSE "InvalidSignature"
    ELSE IF proof_attestation = "zero" THEN "InvalidKeeperAttestation" ELSE "Ok"

execute_keeper_intent_result(intent_id, d, nullifier_hash, proof_attestation) ==
    LET it == intent[intent_id]
        recipient_amount == IF it.keeper_fee > d THEN 0 ELSE d - it.keeper_fee
    IN  IF ~it.exists THEN "AccountNotInitialized"
        ELSE IF it.executed THEN "IntentAlreadyExecuted"
        ELSE IF NullifierPda(d, nullifier_hash) \in nullifier THEN "AccountAlreadyInUse"
        ELSE IF ~KeeperIntent_can_execute(it, now) THEN "NotInExecutionWindow"
        ELSE IF d # it.denomination THEN "DenominationMismatch"
        ELSE IF verify_keeper_attestation(proof_attestation) # "Ok"
             THEN verify_keeper_attestation(proof_attestation)
        ELSE IF ~CanPay(lamports, PoolKey(d), recipient_amount + it.keeper_fee)
             THEN "InsufficientFunds"
        ELSE "Ok"

\* Pays on the keeper's word: no root, no proof.
execute_keeper_intent(intent_id, d, nullifier_hash, recipient, proof_attestation) ==
    LET res == execute_keeper_intent_result(intent_id, d, nullifier_hash, proof_attestation)
        it == intent[intent_id]
        recipient_amount == IF it.keeper_fee > d THEN 0 ELSE d - it.keeper_fee
    IN  IF res # "Ok"
        THEN Rejected
        ELSE
        /\ nullifier' = nullifier \cup {NullifierPda(d, nullifier_hash)}
        /\ intent' = [intent EXCEPT ![intent_id].executed = TRUE]
        /\ lamports' = Credit(Credit(Debit(lamports, PoolKey(d),
                                           recipient_amount + it.keeper_fee),
                                     recipient, recipient_amount),
                              "keeper", it.keeper_fee)
        /\ pool' = [pool EXCEPT ![d].deposit_count = IF @ = 0 THEN 0 ELSE @ - 1]
        /\ spent' = [spent EXCEPT ![d] =
                        Append(@, [op |-> "execute_keeper_intent", key |-> nullifier_hash])]
        /\ last' = Outcome("execute_keeper_intent", d, nullifier_hash, "Ok", FALSE, FALSE)
        /\ UNCHANGED <<leaf_account, commitment, now, production, deposited, saved>>

cancel_keeper_intent_result(intent_id) ==
    LET it == intent[intent_id]
    IN  IF ~it.exists THEN "AccountNotInitialized"
        ELSE IF it.executed THEN "IntentAlreadyExecuted"
        ELSE IF ~(now < it.window_start \/ now > it.window_end)
             THEN "CannotCancelDuringWindow"
        ELSE "Ok"

cancel_keeper_intent(intent_id) ==
    LET res == cancel_keeper_intent_result(intent_id)
    IN  IF res # "Ok"
        THEN Rejected
        ELSE
        /\ intent' = [intent EXCEPT ![intent_id] = NoAccount]
        /\ last' = Outcome("cancel_keeper_intent", 0, <<intent_id>>, "Ok", FALSE, FALSE)
        /\ UNCHANGED <<pool, lamports, nullifier, leaf_account, commitment, now,
                       production, deposited, saved, spent>>

----------------------------------------------------------------------------
(* Commit-reveal withdrawals *)

DENOMINATION_100_SOL == 100 * DENOMINATION_1_SOL
VALID_DENOMINATIONS == {DENOMINATION_1_SOL, DENOMINATION_10_SOL, DENOMINATION_100_SOL}

KeyDigest(k) == <<KeyBytes(k).q, KeyBytes(k).rem>>

\* SHA-256 over domain, proof hash, recipient, user random and nonce.
compute_withdrawal_commitment(proof_hash, recipient, user_random, nonce) ==
    <<ShaTag>> \o proof_hash \o KeyDigest(recipient) \o user_random \o Fe(nonce)

\* A recipient's meta-address and the ephemeral key of one payment.
ScanKey(r) == Fe(KeyBytes(r).rem + 200)
SpendKey(r) == Fe(KeyBytes(r).rem + 300)
EphemeralKey == Fe(77)

\* Keccak over nullifier hash, scan key, spend key, ephemeral key, user random
\* and nonce, as unified_reveal recomputes it.
unified_commitment_hash(nullifier_hash, scan, spend, ephemeral, user_random, nonce) ==
    <<KeccakTag>> \o nullifier_hash \o scan \o spend \o ephemeral \o user_random
                  \o Fe(nonce)

\* can_execute with both ends of the window excluded.
can_execute_open_window(c, current_timestamp) ==
    IF c.executed \/ c.cancelled THEN FALSE
    ELSE LET elapsed == current_timestamp - c.commit_timestamp
         IN  elapsed > c.min_delay_seconds /\ elapsed < c.max_delay_seconds

\* can_execute without the end of the window.
can_execute_no_deadline(c, current_timestamp) ==
    IF c.executed \/ c.cancelled THEN FALSE
    ELSE LET elapsed == current_timestamp - c.commit_timestamp
         IN  elapsed >= c.min_delay_seconds

WithdrawalCommitment_can_execute(c, current_timestamp) ==
    IF c.executed \/ c.cancelled THEN FALSE
    ELSE LET elapsed == current_timestamp - c.commit_timestamp
         IN  elapsed >= c.min_delay_seconds /\ elapsed <= c.max_delay_seconds

\* is_expired from the last second of the window on.
is_expired_at_deadline(c, current_timestamp) ==
    LET elapsed == current_timestamp - c.commit_timestamp
    IN  elapsed >= c.max_delay_seconds

is_expired(c, current_timestamp) ==
    LET elapsed == current_timestamp - c.commit_timestamp
    IN  elapsed > c.max_delay_seconds

NewCommitment(commitment_hash, denomination, min_delay_seconds, max_delay_seconds) ==
    [exists |-> TRUE, commitment_hash |-> commitment_hash, commit_timestamp |-> now,
     min_delay_seconds |-> min_delay_seconds, max_delay_seconds |-> max_delay_seconds,
     denomination |-> denomination, executed |-> FALSE, cancelled |-> FALSE]

\* commit_withdrawal without the ceiling on max_delay.
commit_withdrawal_result_no_ceiling(commitment_hash, denomination, min_delay_hours, max_delay_hours) ==
    LET min_delay_seconds == min_delay_hours * SECONDS_PER_HOUR
        max_delay_seconds == max_delay_hours * SECONDS_PER_HOUR
    IN  IF commitment[commitment_hash].exists THEN "AccountAlreadyInUse"
        ELSE IF min_delay_seconds < ABSOLUTE_MIN_DELAY THEN "DelayTooShort"
        ELSE IF ~(max_delay_seconds > min_delay_seconds) THEN "InvalidDelayWindow"
        ELSE IF denomination \notin VALID_DENOMINATIONS THEN "InvalidDenomination"
        ELSE "Ok"

commit_withdrawal_result(commitment_hash, denomination, min_delay_hours, max_delay_hours) ==
    LET min_delay_seconds == min_delay_hours * SECONDS_PER_HOUR
        max_delay_seconds == max_delay_hours * SECONDS_PER_HOUR
    IN  IF commitment[commitment_hash].exists THEN "AccountAlreadyInUse"
        ELSE IF min_delay_seconds < ABSOLUTE_MIN_DELAY THEN "DelayTooShort"
        ELSE IF max_delay_seconds > ABSOLUTE_MAX_DELAY THEN "DelayTooLong"
        ELSE IF ~(max_delay_seconds > min_delay_seconds) THEN "InvalidDelayWindow"
        ELSE IF denomination \notin VALID_DENOMINATIONS THEN "InvalidDenomination"
        ELSE "Ok"

commit_withdrawal(commitment_hash, denomination, min_delay_hours, max_delay_hours) ==
    LET res == commit_withdrawal_result(commitment_hash, denomination,
                                        min_delay_hours, max_delay_hours)
    IN  IF res # "Ok"
        THEN Rejected
        ELSE
        /\ commitment' = [commitment EXCEPT ![commitment_hash] =
                            NewCommitment(commitment_hash, denomination,
                                          min_delay_hours * SECONDS_PER_HOUR,
                                          max_delay_hours * SECONDS_PER_HOUR)]
        /\ last' = Outcome("commit_withdrawal", denomination, commitment_hash, "Ok",
                           FALSE, FALSE)
        /\ UNCHANGED <<pool, lamports, nullifier, leaf_account, intent, now,
                       production, deposited, saved, spent>>

unified_commit_result(commitment_hash, min_delay_hours, max_delay_hours) ==
    IF commitment[commitment_hash].exists THEN "AccountAlreadyInUse"
    ELSE IF min_delay_hours < 1 THEN "DelayTooShort"
    ELSE IF max_delay_hours > 168 THEN "DelayTooLong"
    ELSE IF ~(max_delay_hours > min_delay_hours) THEN "InvalidDelayWindow"
    ELSE "Ok"

unified_commit(commitment_hash, denomination, min_delay_hours, max_delay_hours) ==
    LET res == unified_commit_result(commitment_hash, min_delay_hours, max_delay_hours)
    IN  IF res # "Ok"
        THEN Rejected
        ELSE
        /\ commitment' = [commitment EXCEPT ![commitment_hash] =
                            NewCommitment(commitment_hash, denomination,
                                          min_delay_hours * SECONDS_PER_HOUR,
                                          max_delay_hours * SECONDS_PER_HOUR)]
        /\ last' = Outcome("unified_commit", denomination, commitment_hash, "Ok",
                           FALSE, FALSE)
        /\ UNCHANGED <<pool, lamports, nullifier, leaf_account, intent, now,
                       production, deposited, saved, spent>>

\* reveal_and_withdraw without the constraint on the executed flag.
reveal_and_withdraw_result_executed_unchecked(commitment_hash, d, proof_hash, recipient, user_random, nonce, relayer_fee, has_relayer) ==
    LET c == commitment[commitment_hash]
        computed_hash == compute_withdrawal_commitment(proof_hash, recipient,
                                                       user_random, nonce)
    IN  IF ~c.exists THEN "AccountNotInitialized"
        ELSE IF c.cancelled THEN "CommitmentCancelled"
        ELSE IF ~WithdrawalCommitment_can_execute([c EXCEPT !.executed = FALSE], now) THEN "NotInExecutionWindow"
        ELSE IF computed_hash # c.commitment_hash THEN "CommitmentMismatch"
        ELSE IF d # c.denomination THEN "DenominationMismatch"
        ELSE IF relayer_fee > 0 /\ relayer_fee > d \div 10 THEN "RelayerFeeTooHigh"
        ELSE IF relayer_fee > 0 /\ ~has_relayer THEN "RelayerRequired"
        ELSE IF ~CanPay(lamports, PoolKey(d), d) THEN "InsufficientFunds"
        ELSE "Ok"

\* reveal_and_withdraw without the comparison of the recomputed hash.
reveal_and_withdraw_result_hash_unchecked(commitment_hash, d, proof_hash, recipient, user_random, nonce, relayer_fee, has_relayer) ==
    LET c == commitment[commitment_hash]
        computed_hash == compute_withdrawal_commitment(proof_hash, recipient,
                                                       user_random, nonce)
    IN  IF ~c.exists THEN "AccountNotInitialized"
        ELSE IF c.executed THEN "CommitmentAlreadyExecuted"
        ELSE IF c.cancelled THEN "CommitmentCancelled"
        ELSE IF ~WithdrawalCommitment_can_execute(c, now) THEN "NotInExecutionWindow"
        ELSE IF d # c.denomination THEN "DenominationMismatch"
        ELSE IF relayer_fee > 0 /\ relayer_fee > d \div 10 THEN "RelayerFeeTooHigh"
        ELSE IF relayer_fee > 0 /\ ~has_relayer THEN "RelayerRequired"
        ELSE IF ~CanPay(lamports, PoolKey(d), d) THEN "InsufficientFunds"
        ELSE "Ok"

\* reveal_and_withdraw looking at the executed flag and the window only.
reveal_and_withdraw_result_cancelled_unchecked(commitment_hash, d, proof_hash, recipient, user_random, nonce, relayer_fee, has_relayer) ==
    LET c == commitment[commitment_hash]
        elapsed == now - c.commit_timestamp
        computed_hash == compute_withdrawal_commitment(proof_hash, recipient,
                                                       user_random, nonce)
    IN  IF ~c.exists THEN "AccountNotInitialized"
        ELSE IF c.executed THEN "CommitmentAlreadyExecuted"
        ELSE IF elapsed < c.min_delay_seconds \/ elapsed > c.max_delay_seconds
             THEN "NotInExecutionWindow"
        ELSE IF computed_hash # c.commitment_hash THEN "CommitmentMismatch"
        ELSE IF d # c.denomination THEN "DenominationMismatch"
        ELSE IF relayer_fee > 0 /\ relayer_fee > d \div 10 THEN "RelayerFeeTooHigh"
        ELSE IF relayer_fee > 0 /\ ~has_relayer THEN "RelayerRequired"
        ELSE IF ~CanPay(lamports, PoolKey(d), d) THEN "InsufficientFunds"
        ELSE "Ok"

reveal_and_withdraw_result(commitment_hash, d, proof_hash, recipient, user_random, nonce, relayer_fee, has_relayer) ==
    LET c == commitment[commitment_hash]
        computed_hash == compute_withdrawal_commitment(proof_hash, recipient,
                                                       user_random, nonce)
    IN  IF ~c.exists THEN "AccountNotInitialized"
        ELSE IF c.executed THEN "CommitmentAlreadyExecuted"
        ELSE IF c.cancelled THEN "CommitmentCancelled"
        ELSE IF ~WithdrawalCommitment_can_execute(c, now) THEN "NotInExecutionWindow"
        ELSE IF computed_hash # c.commitment_hash THEN "CommitmentMismatch"
        ELSE IF d # c.denomination THEN "DenominationMismatch"
        ELSE IF relayer_fee > 0 /\ relayer_fee > d \div 10 THEN "RelayerFeeTooHigh"
        ELSE IF relayer_fee > 0 /\ ~has_relayer THEN "RelayerRequired"
        ELSE IF ~CanPay(lamports, PoolKey(d), d) THEN "InsufficientFunds"
        ELSE "Ok"

\* Pays the denomination out of the pool on the hash and the window alone.
reveal_and_withdraw(commitment_hash, d, proof_hash, recipient, user_random, nonce, relayer_fee, has_relayer) ==
    LET res == reveal_and_withdraw_result(commitment_hash, d, proof_hash, recipient,
                                          user_random, nonce, relayer_fee, has_relayer)
        computed_hash == compute_withdrawal_commitment(proof_hash, recipient,
                                                       user_random, nonce)
    IN  IF res # "Ok"
        THEN Rejected
        ELSE
        /\ commitment' = [commitment EXCEPT ![commitment_hash].executed = TRUE]
        /\ lamports' = transfer_withdrawal(lamports, d, recipient, d, relayer_fee)
        /\ pool' = [pool EXCEPT ![d].deposit_count = IF @ = 0 THEN 0 ELSE @ - 1]
        /\ spent' = [spent EXCEPT ![d] =
                        Append(@, [op |-> "reveal_and_withdraw", key |-> EmptyKey])]
        /\ last' = RevealOutcome("reveal_and_withdraw", d, commitment_hash, "Ok",
                                 FALSE, FALSE, computed_hash)
        /\ UNCHANGED <<nullifier, leaf_account, intent, now, production, deposited, saved>>

unified_reveal_result(commitment_hash, d, nullifier_hash, params, address_ok, relayer_fee) ==
    LET c == commitment[commitment_hash]
        elapsed == now - c.commit_timestamp
        computed_hash == unified_commitment_hash(nullifier_hash, ScanKey(params.recipient),
                                                 SpendKey(params.recipient), EphemeralKey,
                                                 params.user_random, params.nonce)
    IN  IF ~c.exists THEN "AccountNotInitialized"
        ELSE IF c.executed THEN "CommitmentAlreadyExecuted"
        ELSE IF c.cancelled THEN "CommitmentCancelled"
        ELSE IF UnifiedNullifierPda(nullifier_hash) \in nullifier THEN "AccountAlreadyInUse"
        ELSE IF elapsed < c.min_delay_seconds THEN "NotInExecutionWindow"
        ELSE IF elapsed > c.max_delay_seconds THEN "NotInExecutionWindow"
        ELSE IF nullifier_hash # params.nullifier_hash THEN "InvalidNullifier"
        ELSE IF computed_hash # commitment_hash THEN "CommitmentMismatch"
        ELSE IF ~address_ok THEN "AddressMismatch"
        ELSE IF ~pool[d].is_active THEN "PoolNotActive"
        ELSE IF pool[d].total_deposited - pool[d].total_withdrawn < d
             THEN "InsufficientPoolBalance"
        ELSE IF ~is_valid_root(pool[d], params.merkle_root) THEN "InvalidMerkleRoot"
        ELSE IF ~CanPay(lamports, PoolKey(d), UnifiedDebit(d, relayer_fee))
             THEN "LamportUnderflow"
        ELSE "Ok"

\* params.proof_data is carried along and never looked at.
unified_reveal(commitment_hash, d, nullifier_hash, params, address_ok, relayer_fee) ==
    LET res == unified_reveal_result(commitment_hash, d, nullifier_hash, params,
                                     address_ok, relayer_fee)
        root_ok == is_valid_root(pool[d], params.merkle_root)
        proof_ok == params.proof_data = "valid"
        computed_hash == unified_commitment_hash(nullifier_hash, ScanKey(params.recipient),
                                                 SpendKey(params.recipient), EphemeralKey,
                                                 params.user_random, params.nonce)
    IN  IF res # "Ok"
        THEN Rejected
        ELSE
        /\ pool' = [pool EXCEPT ![d].withdrawal_count = @ + 1,
                                ![d].total_withdrawn = @ + d]
        /\ nullifier' = nullifier \cup {UnifiedNullifierPda(nullifier_hash)}
        /\ commitment' = [commitment EXCEPT ![commitment_hash].executed = TRUE]
        /\ lamports' = unified_transfer(lamports, d, params.recipient, relayer_fee)
        /\ spent' = [spent EXCEPT ![d] =
                        Append(@, [op |-> "unified_reveal", key |-> nullifier_hash])]
        /\ last' = RevealOutcome("unified_reveal", d, commitment_hash, "Ok",
                                 root_ok, proof_ok, computed_hash)
        /\ UNCHANGED <<leaf_account, intent, now, production, deposited, saved>>

\* cancel_commitment without the constraint on the executed flag.
cancel_commitment_result_executed_unchecked(commitment_hash) ==
    LET c == commitment[commitment_hash]
    IN  IF ~c.exists THEN "AccountNotInitialized"
        ELSE "Ok"

cancel_commitment_result(commitment_hash) ==
    LET c == commitment[commitment_hash]
    IN  IF ~c.exists THEN "AccountNotInitialized"
        ELSE IF c.executed THEN "CommitmentAlreadyExecuted"
        ELSE "Ok"

cancel_commitment(commitment_hash) ==
    LET res == cancel_commitment_result(commitment_hash)
    IN  IF res # "Ok"
        THEN Rejected
        ELSE
        /\ commitment' = [commitment EXCEPT ![commitment_hash].cancelled = TRUE]
        /\ last' = Outcome("cancel_commitment", 0, commitment_hash, "Ok", FALSE, FALSE)
        /\ UNCHANGED <<pool, lamports, nullifier, leaf_account, intent, now,
                       production, deposited, saved, spent>>

close_commitment_result(commitment_hash) ==
    LET c == commitment[commitment_hash]
        can_close == c.executed \/ c.cancelled \/ is_expired(c, now)
    IN  IF ~c.exists THEN "AccountNotInitialized"
        ELSE IF ~can_close THEN "CommitmentStillActive"
        ELSE "Ok"

close_commitment(commitment_hash) ==
    LET res == close_commitment_result(commitment_hash)
    IN  IF res # "Ok"
        THEN Rejected
        ELSE
        /\ commitment' = [commitment EXCEPT ![commitment_hash] = NoAccount]
        /\ last' = Outcome("close_commitment", 0, commitment_hash, "Ok", FALSE, FALSE)
        /\ UNCHANGED <<pool, lamports, nullifier, leaf_account, intent, now,
                       production, deposited, saved, spent>>

----------------------------------------------------------------------------
(* The clock *)

Instants == {h * SECONDS_PER_HOUR + e : h \in 1..MaxHours, e \in {0 - 1, 0, 1}}

Tick(t) ==
    /\ t > now
    /\ now' = t
    /\ last' = Outcome("tick", 0, EmptyKey, "Ok", FALSE, FALSE)
    /\ UNCHANGED <<pool, lamports, nullifier, leaf_account, commitment, intent,
                   production, deposited, saved, spent>>

----------------------------------------------------------------------------
(* Initial state: both pools initialised, nothing deposited *)

ShaParams ==
    [proof_hash : {Fe(31), Fe(32)}, recipient : Recipients,
     user_random : {Fe(41), Fe(42)}, nonce : {0, 1}]

UnifiedParams ==
    [nullifier_hash : NullifierHashes, recipient : Recipients,
     user_random : {Fe(41)}, nonce : {0, 1}]

ShaHash(p) == compute_withdrawal_commitment(p.proof_hash, p.recipient, p.user_random, p.nonce)
UnifiedHash(p) ==
    unified_commitment_hash(p.nullifier_hash, ScanKey(p.recipient), SpendKey(p.recipient),
                            EphemeralKey, p.user_random, p.nonce)

JunkHash == Fe(555)
CommitKeys == {ShaHash(p) : p \in ShaParams} \cup {UnifiedHash(p) : p \in UnifiedParams}
              \cup {JunkHash}

Init ==
    /\ pool = [d \in Denominations |-> InitialPool(d)]
    /\ lamports = [a \in Accounts |->
                     IF a \in {PoolKey(d) : d \in Denominations} THEN PoolRentReserve ELSE 0]
    /\ nullifier = {}
    /\ leaf_account = {}
    /\ commitment = [k \in CommitKeys |-> NoAccount]
    /\ intent = [i \in IntentIds |-> NoAccount]
    /\ now = 0
    /\ production \in BOOLEAN
    /\ inflight = [t \in TxIds |-> NoTx]
    /\ deposited = [d \in Denominations |-> <<>>]
    /\ saved = [d \in Denominations |-> <<>>]
    /\ spent = [d \in Denominations |-> <<>>]
    /\ last = Outcome("initialize_pool", 0, EmptyKey, "Ok", FALSE, FALSE)

----------------------------------------------------------------------------
(* Pool traffic: deposits, withdrawals, transfers, keeper executions *)

RECURSIVE SumOver(_, _)
SumOver(f, S) ==
    IF S = {} THEN 0
    ELSE LET x == CHOOSE y \in S : TRUE IN f[x] + SumOver(f, S \ {x})

LeavesUsed == SumOver([d \in Denominations |-> pool[d].next_leaf_index], Denominations)

SeqRange(q) == {q[i] : i \in 1..Len(q)}

RootInputs(d) == {pool[d].merkle_root, BogusRoot} \cup SeqRange(saved[d])

\* The recipient the note with this nullifier hash was made out to.
OwnerOf(nullifier_hash) ==
    NoteRecipient(CHOOSE k \in NoteIds : compute_nullifier_hash(NoteNullifier(k)) = nullifier_hash)

\* What a prover holding the notes can send for a statement.
ProofChoices(root, nullifier_hash, recipient, d) ==
    {"empty", "junk"}
    \cup (IF Provable(Statement(root, nullifier_hash, Fe(KeyBytes(recipient).rem), d))
          THEN {"valid"} ELSE {})

Deposit ==
    \E d \in Denominations : \E c \in Commitments(d) :
        /\ LeavesUsed < MaxLeaves
        /\ private_deposit(d, c, TRUE)
        /\ UNCHANGED inflight

UnifiedDeposit ==
    \E d \in Denominations :
        /\ LeavesUsed < MaxLeaves
        /\ unified_deposit(d, NoteCommitment(1, d))
        /\ UNCHANGED inflight

PrivateWithdraw ==
    \E d \in Denominations : \E root \in RootInputs(d) : \E nh \in NullifierHashes :
    \E proof_bytes \in ProofChoices(root, nh, OwnerOf(nh), d) :
    \E attestation \in {"none", "self_signed"} :
        /\ private_withdraw(d, root, nh, OwnerOf(nh), TRUE, proof_bytes, attestation, 0)
        /\ UNCHANGED inflight

VerifiedWithdraw ==
    \E d \in Denominations : \E root \in RootInputs(d) : \E nh \in NullifierHashes :
    \E recipient \in Recipients : \E amount \in Denominations :
        LET public_inputs == Statement(root, nh, Fe(KeyBytes(OwnerOf(nh)).rem), amount)
        IN  \E proof \in Groth16Proofs(public_inputs) :
                /\ verified_withdraw(d, public_inputs, proof, recipient, MIN_KEEPER_FEE)
                /\ UNCHANGED inflight

PrivateTransfer ==
    \E d \in Denominations : \E root \in RootInputs(d) : \E nh \in NullifierHashes :
    \E c1 \in {NoteCommitment(1, d), ZERO32} :
    \E proof_bytes \in ProofChoices(root, nh, OwnerOf(nh), d) :
        /\ LeavesUsed < MaxLeaves
        /\ private_transfer(d, root, nh, c1, NoteCommitment(2, d), proof_bytes,
                            "self_signed")
        /\ UNCHANGED inflight

UnifiedWithdraw ==
    \E d \in Denominations : \E root \in RootInputs(d) : \E nh \in NullifierHashes :
    \E address_ok \in BOOLEAN :
        /\ unified_withdraw(d, root, nh, OwnerOf(nh), address_ok, "junk", 0)
        /\ UNCHANGED inflight

SubmitKeeperIntent ==
    \E id \in IntentIds : \E offset \in {0, 1} : \E d \in Denominations :
        /\ now = 0
        /\ submit_keeper_intent(id, offset, 1, d, MIN_KEEPER_FEE)
        /\ UNCHANGED inflight

ExecuteKeeperIntent ==
    \E id \in IntentIds : \E d \in Denominations : \E nh \in NullifierHashes :
    \E att \in KeeperAttestations :
        /\ execute_keeper_intent(id, d, nh, OwnerOf(nh), att)
        /\ UNCHANGED inflight

\* Time passes to the start of a pending intent's window.
KeeperTick ==
    \E id \in IntentIds :
        /\ intent[id].exists
        /\ Tick(intent[id].window_start)
        /\ UNCHANGED inflight

Next ==
    \/ Deposit
    \/ PrivateWithdraw
    \/ VerifiedWithdraw
    \/ PrivateTransfer
    \/ SubmitKeeperIntent
    \/ ExecuteKeeperIntent
    \/ KeeperTick

Spec == Init /\ [][Next]_vars

----------------------------------------------------------------------------
(* C1 *)

WithdrawalEntryPoints ==
    {"private_withdraw", "verified_withdraw", "private_transfer", "execute_keeper_intent"}

\* Every attempt to spend nullifier_hash in pool d, through any of the four
\* entry points and whatever else it presents, is rejected.
ReplayRejected(d, nullifier_hash) ==
    /\ \A root \in RootInputs(d) : \A commitment_ok \in BOOLEAN :
       \A proof_bytes \in ProofBytes : \A attestation \in Attestations :
           private_withdraw_result(d, root, nullifier_hash, commitment_ok, proof_bytes,
                                   attestation) # "Ok"
    /\ \A root \in RootInputs(d) : \A recipient \in Recipients : \A claimed \in Recipients :
       \A amount \in Denominations :
           LET public_inputs ==
                   Statement(root, nullifier_hash, Fe(KeyBytes(claimed).rem), amount)
           IN  \A proof \in Groth16Proofs(public_inputs) :
                   verified_withdraw_result(d, public_inputs, proof, recipient) # "Ok"
    /\ \A root \in RootInputs(d) : \A c \in Commitments(d) :
       \A proof_bytes \in ProofBytes : \A attestation \in Attestations :
           private_transfer_result(d, root, nullifier_hash, c, proof_bytes, attestation)
               # "Ok"
    /\ \A id \in IntentIds : \A att \in KeeperAttestations :
           execute_keeper_intent_result(id, d, nullifier_hash, att) # "Ok"

\* C1: in every pool a nullifier hash is spent at most once over the four
\* entry points private_withdraw, verified_withdraw, private_transfer and
\* execute_keeper_intent, and once it is spent every further attempt to spend
\* it in that pool is rejected (a rejected instruction moves nothing).
C1_OneWithdrawalPerNullifier ==
    \A d \in Denominations :
        /\ \A i, j \in 1..Len(spent[d]) :
               (i # j /\ spent[d][i].op \in WithdrawalEntryPoints
                      /\ spent[d][j].op \in WithdrawalEntryPoints)
               => spent[d][i].key # spent[d][j].key
        /\ \A i \in 1..Len(spent[d]) :
               spent[d][i].op \in WithdrawalEntryPoints
               => ReplayRejected(d, spent[d][i].key)

\* A nullifier was spent, the pool could still pay a withdrawal, and a second
\* private_withdraw with that nullifier and an otherwise acceptable request
\* ends with the account-exists error.
C1_Witness ==
    \E d \in Denominations : \E i \in 1..Len(spent[d]) :
        /\ spent[d][i].op \in WithdrawalEntryPoints
        /\ lamports[PoolKey(d)] >= d
        /\ private_withdraw_result(d, pool[d].merkle_root, spent[d][i].key, TRUE,
                                   "junk", "self_signed") = "AccountAlreadyInUse"

----------------------------------------------------------------------------
(* C4 *)

ProofCheckedEntryPoints == {"private_withdraw", "verified_withdraw", "private_transfer"}

\* C4: a withdrawal completes only if the root it names is valid for the
\* pool and the proof it carries is a Groth16 proof of its statement
\* (merkle_root, nullifier_hash, recipient, denomination).
C4_WithdrawalNeedsRootAndProof ==
    (last.op \in ProofCheckedEntryPoints /\ last.res = "Ok")
        => (last.root_ok /\ last.proof_ok)

----------------------------------------------------------------------------
(* The unified entry points next to the proof-checked pool *)

NextUnified ==
    \/ Deposit
    \/ UnifiedDeposit
    \/ VerifiedWithdraw
    \/ UnifiedWithdraw

SpecUnified == Init /\ [][NextUnified]_vars

----------------------------------------------------------------------------
(* C3 *)

PayingEntryPoints ==
    {"private_withdraw", "verified_withdraw", "unified_withdraw", "reveal_and_withdraw",
     "unified_reveal", "execute_keeper_intent"}

PaidSpends(d) == {i \in 1..Len(spent[d]) : spent[d][i].op \in PayingEntryPoints}

\* The commitment of pool d that nullifier_hash spends.
CommitmentOf(d, nullifier_hash) ==
    NoteCommitment(CHOOSE k \in NoteIds :
                       compute_nullifier_hash(NoteNullifier(k)) = nullifier_hash, d)

\* C3: every payment out of a pool spends a commitment deposited into that
\* pool before, no two payments spend the same one, and so a pool has paid
\* at most as often as it has taken a commitment.
C3_WithdrawalsMatchCommitments ==
    \A d \in Denominations :
        /\ \A i \in PaidSpends(d) :
               /\ spent[d][i].key \in NullifierHashes
               /\ \E j \in 1..Len(deposited[d]) :
                      deposited[d][j] = CommitmentOf(d, spent[d][i].key)
        /\ \A i, j \in PaidSpends(d) : i # j => spent[d][i].key # spent[d][j].key
        /\ Cardinality(PaidSpends(d)) <= Len(deposited[d])

----------------------------------------------------------------------------
(* C9 *)

SpentKeys(d) == {spent[d][i].key : i \in 1..Len(spent[d])}

\* nullifier_hash, presented with a current root and otherwise acceptable
\* inputs, is turned away from pool d because its nullifier account exists.
NullifierTaken(d, nullifier_hash) ==
    \/ private_withdraw_result(d, pool[d].merkle_root, nullifier_hash, TRUE, "valid",
                               "self_signed") = "AccountAlreadyInUse"
    \/ LET public_inputs == Statement(pool[d].merkle_root, nullifier_hash,
                                      Fe(KeyBytes(OwnerOf(nullifier_hash)).rem), d)
       IN  verified_withdraw_result(d, public_inputs,
                                    [pi |-> "valid", stmt |-> public_inputs],
                                    OwnerOf(nullifier_hash)) = "AccountAlreadyInUse"
    \/ unified_withdraw_result(d, pool[d].merkle_root, nullifier_hash, TRUE, 0)
           = "AccountAlreadyInUse"

\* C9: a nullifier hash recorded by a withdrawal from the pool of one
\* denomination does not get a withdrawal presenting the same hash turned
\* away from the pool of another denomination.
C9_NullifierSpacePerPool ==
    \A d1, d2 \in Denominations : \A nullifier_hash \in NullifierHashes :
        (d1 # d2 /\ nullifier_hash \in SpentKeys(d1) /\ nullifier_hash \notin SpentKeys(d2))
            => ~NullifierTaken(d2, nullifier_hash)

----------------------------------------------------------------------------
(* Commit and reveal *)

OpenCommitments == {k \in CommitKeys : commitment[k].exists}

\* Hashes the owner commits to: of parameters they can reveal later, and one
\* that no parameters hash to.
ShaCommitChoices ==
    {ShaHash(p) : p \in {q \in ShaParams : q.proof_hash = Fe(31) /\ q.user_random = Fe(41)
                                           /\ q.nonce = 0}}
    \cup {JunkHash}

UnifiedCommitChoices ==
    {UnifiedHash(p) : p \in {q \in UnifiedParams : q.recipient = "r1" /\ q.nonce = 0}}

RevealFees(d) == {0, MIN_KEEPER_FEE, d \div 10 + 1}

RevealParams(d, p) ==
    {[nullifier_hash |-> p.nullifier_hash, recipient |-> p.recipient,
      user_random |-> p.user_random, nonce |-> p.nonce, merkle_root |-> root,
      proof_data |-> "junk"] : root \in {pool[d].merkle_root, BogusRoot}}

\* Deposits that fund the 1 SOL pool.
FundPool ==
    /\ pool[DENOMINATION_1_SOL].next_leaf_index < MaxLeaves
    /\ unified_deposit(DENOMINATION_1_SOL, NoteCommitment(1, DENOMINATION_1_SOL))
    /\ UNCHANGED inflight

\* Commitments are made at the start of the clock.
CommitWithdrawal ==
    \E h \in ShaCommitChoices : \E d \in Denominations :
        /\ now = 0
        /\ Cardinality(OpenCommitments) < MaxCommitments
        /\ commit_withdrawal(h, d, 1, 2)
        /\ UNCHANGED inflight

UnifiedCommit ==
    \E h \in UnifiedCommitChoices : \E d \in Denominations :
        /\ now = 0
        /\ Cardinality(OpenCommitments) < MaxCommitments
        /\ unified_commit(h, d, 1, 2)
        /\ UNCHANGED inflight

RevealAndWithdraw ==
    \E k \in OpenCommitments : \E p \in ShaParams : \E d \in Denominations :
    \E relayer_fee \in RevealFees(d) : \E has_relayer \in BOOLEAN :
        /\ reveal_and_withdraw(k, d, p.proof_hash, p.recipient, p.user_random, p.nonce,
                               relayer_fee, has_relayer)
        /\ UNCHANGED inflight

UnifiedReveal ==
    \E k \in OpenCommitments : \E p \in UnifiedParams : \E d \in Denominations :
    \E nh \in NullifierHashes : \E params \in RevealParams(d, p) :
    \E address_ok \in BOOLEAN : \E relayer_fee \in RevealFees(d) :
        /\ unified_reveal(k, d, nh, params, address_ok, relayer_fee)
        /\ UNCHANGED inflight

CancelCommitment ==
    \E k \in OpenCommitments :
        /\ cancel_commitment(k)
        /\ UNCHANGED inflight

CloseCommitment ==
    \E k \in OpenCommitments :
        /\ close_commitment(k)
        /\ UNCHANGED inflight

ClockTick ==
    \E t \in Instants :
        /\ Tick(t)
        /\ UNCHANGED inflight

NextReveal ==
    \/ FundPool
    \/ CommitWithdrawal
    \/ UnifiedCommit
    \/ RevealAndWithdraw
    \/ UnifiedReveal
    \/ CancelCommitment
    \/ CloseCommitment
    \/ ClockTick

SpecReveal == Init /\ [][NextReveal]_vars

----------------------------------------------------------------------------
(* C5 *)

RevealEntryPoints == {"reveal_and_withdraw", "unified_reveal"}

ShaRevealOf(k, p, d, relayer_fee, has_relayer) ==
    reveal_and_withdraw_result(k, d, p.proof_hash, p.recipient, p.user_random, p.nonce,
                               relayer_fee, has_relayer)

\* The outcomes of every reveal_and_withdraw naming commitment k.
ShaRevealResults(k) ==
    {ShaRevealOf(k, p, d, fh[1], fh[2]) :
        p \in ShaParams, d \in Denominations,
        fh \in {0, MIN_KEEPER_FEE, DENOMINATION_10_SOL} \X BOOLEAN}

\* The outcomes of every unified_reveal naming commitment k.
UnifiedRevealResults(k) ==
    UNION {{unified_reveal_result(k, d, nh, params, address_ok, relayer_fee) :
               params \in RevealParams(d, p), nh \in NullifierHashes,
               address_ok \in BOOLEAN, relayer_fee \in RevealFees(d)} :
           p \in UnifiedParams, d \in Denominations}

\* C5: a reveal sets the executed flag of a commitment that did not have it
\* set, and every reveal naming an executed commitment, by either reveal
\* instruction and with whatever parameters, is rejected.
C5_ExecutedAtMostOnce ==
    \A k \in OpenCommitments :
        commitment[k].executed
            => "Ok" \notin ShaRevealResults(k) \cup UnifiedRevealResults(k)

\* An executed commitment, still inside its window, the pool able to pay
\* again, and the reveal of its own parameters turned away.
C5_Witness ==
    \E k \in CommitKeys : \E p \in ShaParams :
        LET c == commitment[k]
        IN  /\ c.exists /\ c.executed
            /\ now - c.commit_timestamp >= c.min_delay_seconds
            /\ now - c.commit_timestamp <= c.max_delay_seconds
            /\ CanPay(lamports, PoolKey(c.denomination), c.denomination)
            /\ ShaHash(p) = c.commitment_hash
            /\ ShaRevealOf(k, p, c.denomination, 0, FALSE) = "CommitmentAlreadyExecuted"

----------------------------------------------------------------------------
(* C6 *)

UnifiedRevealOf(k, p, d, root) ==
    unified_reveal_result(k, d, p.nullifier_hash,
                          [nullifier_hash |-> p.nullifier_hash, recipient |-> p.recipient,
                           user_random |-> p.user_random, nonce |-> p.nonce,
                           merkle_root |-> root, proof_data |-> "junk"],
                          TRUE, 0)

\* C6: a reveal is accepted only when the hash recomputed from what it
\* reveals is the hash stored in the commitment; with the parameters of the
\* commitment known, a reveal that differs from them in proof hash,
\* recipient, user random or nonce (for the unified reveal: nullifier hash,
\* recipient keys, user random or nonce) is rejected.
C6_RevealNeedsCommittedHash ==
    /\ last.op \in RevealEntryPoints => last.hash = last.key
    /\ \A k \in OpenCommitments :
        /\ \A p \in ShaParams : \A d \in Denominations :
           \A relayer_fee \in RevealFees(d) : \A has_relayer \in BOOLEAN :
               ShaRevealOf(k, p, d, relayer_fee, has_relayer) = "Ok"
                   => ShaHash(p) = commitment[k].commitment_hash
        /\ \A p, q \in ShaParams :
               (ShaHash(p) = commitment[k].commitment_hash /\ q # p)
                   => \A d \in Denominations : ShaRevealOf(k, q, d, 0, FALSE) # "Ok"
        /\ \A p \in UnifiedParams : \A d \in Denominations :
               UnifiedRevealOf(k, p, d, pool[d].merkle_root) = "Ok"
                   => UnifiedHash(p) = commitment[k].commitment_hash
        /\ \A p, q \in UnifiedParams :
               (UnifiedHash(p) = commitment[k].commitment_hash /\ q # p)
                   => \A d \in Denominations :
                          UnifiedRevealOf(k, q, d, pool[d].merkle_root) # "Ok"

\* A commitment whose own parameters are accepted now and for which the
\* same reveal with another nonce is turned away for its hash.
C6_Witness ==
    \E k \in OpenCommitments : \E p, q \in ShaParams :
        LET c == commitment[k]
        IN  /\ ShaHash(p) = c.commitment_hash
            /\ q = [p EXCEPT !.nonce = 1 - p.nonce]
            /\ ShaRevealOf(k, p, c.denomination, 0, FALSE) = "Ok"
            /\ ShaRevealOf(k, q, c.denomination, 0, FALSE) = "CommitmentMismatch"

----------------------------------------------------------------------------
(* C7 *)

Committed == {k \in OpenCommitments : ~commitment[k].executed /\ ~commitment[k].cancelled}

Elapsed(k) == now - commitment[k].commit_timestamp

\* Every reveal naming k fails, whatever it reveals.
RevealsFail(k) == "Ok" \notin ShaRevealResults(k) \cup UnifiedRevealResults(k)

\* One second before the window opens and one second after it closes no
\* reveal of a committed withdrawal goes through.
OutsideWindowFails ==
    \A k \in Committed :
        (\/ Elapsed(k) = commitment[k].min_delay_seconds - 1
         \/ Elapsed(k) = commitment[k].max_delay_seconds + 1) => RevealsFail(k)

----------------------------------------------------------------------------
(* C8 *)

\* C8: a reveal that pays has checked what a pool withdrawal checks: the
\* root it names is valid for the pool, its proof is a proof of the
\* statement, and it has recorded the nullifier it spends.
C8_RevealVerifiesLikeWithdraw ==
    (last.op \in RevealEntryPoints /\ last.res = "Ok")
        => /\ last.root_ok
           /\ last.proof_ok
           /\ \E i \in 1..Len(spent[last.d]) :
                  /\ spent[last.d][i].op = last.op
                  /\ spent[last.d][i].key \in NullifierHashes
                  /\ UnifiedNullifierPda(spent[last.d][i].key) \in nullifier

----------------------------------------------------------------------------
(* The root history of one pool over more deposits than it has slots *)

HistoryPool == DENOMINATION_1_SOL

\* The commitment of the n-th deposit.
HistoryLeaf(n) == Fe(1000 + n)

\* Roots a depositor hands to simple_deposit.
SuppliedRoots == {ZERO32, BogusRoot}

SuppliedSoFar ==
    Cardinality({i \in 1..Len(saved[HistoryPool]) : saved[HistoryPool][i] \in SuppliedRoots})
    + (IF pool[HistoryPool].merkle_root \in SuppliedRoots THEN 1 ELSE 0)

HistoryDeposit ==
    /\ pool[HistoryPool].next_leaf_index < MaxHistoryLeaves
    /\ private_deposit(HistoryPool, HistoryLeaf(pool[HistoryPool].next_leaf_index), TRUE)
    /\ UNCHANGED inflight

HistorySimpleDeposit ==
    \E merkle_root \in SuppliedRoots :
        /\ pool[HistoryPool].next_leaf_index < MaxHistoryLeaves
        /\ SuppliedSoFar < MaxSuppliedRoots
        /\ simple_deposit(HistoryPool, HistoryLeaf(pool[HistoryPool].next_leaf_index),
                          merkle_root)
        /\ UNCHANGED inflight

NextHistory ==
    \/ HistoryDeposit
    \/ HistorySimpleDeposit

SpecHistory == Init /\ [][NextHistory]_vars

----------------------------------------------------------------------------
(* C10 *)

\* The roots saved by the last ROOT_HISTORY_SIZE calls of save_root_to_history.
LastSavedRoots(d) ==
    {saved[d][i] : i \in {j \in 1..Len(saved[d]) : j > Len(saved[d]) - ROOT_HISTORY_SIZE}}

\* Every root the pool ever had, and values it never had.
RootCandidates(d) ==
    {saved[d][i] : i \in 1..Len(saved[d])}
    \cup {pool[d].merkle_root, ZERO32, BogusRoot, Fe(998)}

----------------------------------------------------------------------------
(* C11 *)

\* The root the pool had j insertions ago (j >= 1), every insertion so far
\* having pushed one root.
RootAgo(d, j) == saved[d][Len(saved[d]) - j + 1]

\* Every leaf so far went in through insert_commitment_to_tree_zc.
OneAtATime(d) == SuppliedSoFar = 0 /\ Len(saved[d]) = pool[d].next_leaf_index

\* C11: once more than ROOT_HISTORY_SIZE leaves have been inserted one at a
\* time (ROOT_HISTORY_SIZE + 5 among them), the root that was current
\* ROOT_HISTORY_SIZE + 1 insertions ago is rejected by is_valid_root and the
\* root that was current ROOT_HISTORY_SIZE - 1 insertions ago is accepted.
C11_RootAgesOut ==
    LET d == HistoryPool
    IN  (OneAtATime(d) /\ pool[d].next_leaf_index > ROOT_HISTORY_SIZE)
            => /\ ~is_valid_root(pool[d], RootAgo(d, ROOT_HISTORY_SIZE + 1))
               /\ is_valid_root(pool[d], RootAgo(d, ROOT_HISTORY_SIZE - 1))

C11_Witness ==
    LET d == HistoryPool
    IN  /\ OneAtATime(d)
        /\ pool[d].next_leaf_index = ROOT_HISTORY_SIZE + 5
        /\ last.op = "private_deposit"
        /\ ~is_valid_root(pool[d], RootAgo(d, ROOT_HISTORY_SIZE + 1))
        /\ is_valid_root(pool[d], RootAgo(d, ROOT_HISTORY_SIZE - 1))

----------------------------------------------------------------------------
(* The insertion paths that take several leaves per call *)

\* A deployment in which the account at the seed alone exists (left by an
\* earlier version of the program) next to the per-denomination pools.
AllPools == Denominations \cup {SinglePool}

InitSingle ==
    /\ pool = [d \in AllPools |->
                 InitialPool(IF d = SinglePool THEN DENOMINATION_1_SOL ELSE d)]
    /\ lamports = [a \in Accounts \cup {PoolKey(SinglePool)} |->
                     IF a \in {PoolKey(d) : d \in AllPools} THEN PoolRentReserve ELSE 0]
    /\ nullifier = {}
    /\ leaf_account = {}
    /\ commitment = [k \in CommitKeys |-> NoAccount]
    /\ intent = [i \in IntentIds |-> NoAccount]
    /\ now = 0
    /\ production \in BOOLEAN
    /\ inflight = [t \in TxIds |-> NoTx]
    /\ deposited = [d \in AllPools |-> <<>>]
    /\ saved = [d \in AllPools |-> <<>>]
    /\ spent = [d \in AllPools |-> <<>>]
    /\ last = Outcome("initialize_pool", 0, EmptyKey, "Ok", FALSE, FALSE)

\* The next n commitments handed to a pool that holds `from` leaves.
NextLeaves(from, n) == [i \in 1..n |-> HistoryLeaf(from + i - 1)]

\* Batches shorter than MaxBatch so far.
ShortSoFar == MaxBatch * Len(saved[SinglePool]) - pool[SinglePool].next_leaf_index

\* Totals a depositor sends with n commitments: the denomination for each, and
\* (with the first batch) half a denomination for all of them.
BatchAmounts(n) ==
    {n * pool[SinglePool].denomination}
    \cup (IF saved[SinglePool] = <<>> THEN {pool[SinglePool].denomination \div 2} ELSE {})

InsertBatchDeposit ==
    \E n \in 0..MaxBatch : \E total_amount \in BatchAmounts(n) :
        /\ Len(saved[SinglePool]) < MaxBatchCalls
        /\ n < MaxBatch => ShortSoFar < MaxShortBatches
        /\ batch_deposit(NextLeaves(pool[SinglePool].next_leaf_index, n), total_amount)
        /\ UNCHANGED inflight

InsertDeposit ==
    /\ Len(saved[HistoryPool]) < MaxTransfers
    /\ private_deposit(HistoryPool, HistoryLeaf(pool[HistoryPool].next_leaf_index), TRUE)
    /\ UNCHANGED inflight

InsertTransfer ==
    \E root \in RootInputs(HistoryPool) : \E proof_bytes \in {"empty", "junk"} :
        /\ Len(saved[HistoryPool]) < MaxTransfers
        /\ private_transfer(HistoryPool, root,
                            compute_nullifier_hash(Fe(3000 + Len(spent[HistoryPool]))),
                            HistoryLeaf(pool[HistoryPool].next_leaf_index),
                            HistoryLeaf(pool[HistoryPool].next_leaf_index + 1),
                            proof_bytes, "self_signed")
        /\ UNCHANGED inflight

NextInsert ==
    \/ InsertBatchDeposit
    \/ InsertDeposit
    \/ InsertTransfer

SpecInsert == InitSingle /\ [][NextInsert]_vars

----------------------------------------------------------------------------
(* C12 *)

\* The roots the tree takes while the leaves go in one by one.
RECURSIVE RootsAlong(_, _)
RootsAlong(p, leaves) ==
    IF leaves = <<>> THEN <<>>
    ELSE LET q == insert_leaf_zc(p, Head(leaves))
         IN  <<q.merkle_root>> \o RootsAlong(q, Tail(leaves))

\* EveryRoot(d)[i + 1] is the root pool d had with its first i leaves.
EveryRoot(d) == <<InitialPool(0).merkle_root>> \o RootsAlong(InitialPool(0), deposited[d])

Min(a, b) == IF a < b THEN a ELSE b

----------------------------------------------------------------------------
(* Withdrawals in flight *)

\* The runtime runs a transaction only while it holds the write locks of the
\* accounts the transaction names as writable; a withdrawal names its pool.
PoolLocked(d) == \E t \in TxIds : inflight[t].status = "executing" /\ inflight[t].d = d

InFlight == {t \in TxIds : inflight[t].status \in {"submitted", "executing"}}

TxInputs(tx) == Statement(tx.root, tx.nh, Fe(KeyBytes(OwnerOf(tx.nh)).rem), tx.d)

TxResult(tx) ==
    IF tx.op = "verified_withdraw"
    THEN verified_withdraw_result(tx.d, TxInputs(tx), [pi |-> "valid", stmt |-> TxInputs(tx)],
                                  OwnerOf(tx.nh))
    ELSE private_withdraw_result(tx.d, tx.root, tx.nh, TRUE, "valid", "self_signed")

ConcDeposit ==
    \E d \in Denominations : \E c \in Commitments(d) :
        /\ LeavesUsed < MaxLeaves
        /\ ~PoolLocked(d)
        /\ private_deposit(d, c, TRUE)
        /\ UNCHANGED inflight

\* A holder of the note sends a withdrawal with a valid proof for the
\* pool's current root.
SubmitWithdrawal ==
    \E t \in TxIds : \E op \in {"verified_withdraw", "private_withdraw"} :
    \E d \in Denominations : \E nh \in NullifierHashes :
        /\ inflight[t].status = "none"
        /\ Provable(Statement(pool[d].merkle_root, nh, Fe(KeyBytes(OwnerOf(nh)).rem), d))
        /\ inflight' = [inflight EXCEPT ![t] =
                          [status |-> "submitted", op |-> op, d |-> d, nh |-> nh,
                           root |-> pool[d].merkle_root, overlap |-> InFlight, res |-> ""]]
        /\ UNCHANGED state

BeginWithdrawal ==
    \E t \in TxIds :
        /\ inflight[t].status = "submitted"
        /\ ~PoolLocked(inflight[t].d)
        /\ inflight' = [inflight EXCEPT ![t].status = "executing"]
        /\ UNCHANGED state

FinishWithdrawal ==
    \E t \in TxIds :
        LET tx == inflight[t]
        IN  /\ tx.status = "executing"
            /\ IF tx.op = "verified_withdraw"
               THEN verified_withdraw(tx.d, TxInputs(tx),
                                      [pi |-> "valid", stmt |-> TxInputs(tx)],
                                      OwnerOf(tx.nh), 0)
               ELSE private_withdraw(tx.d, tx.root, tx.nh, OwnerOf(tx.nh), TRUE, "valid",
                                     "self_signed", 0)
            /\ inflight' = [inflight EXCEPT ![t].status = "done", ![t].res = TxResult(tx)]

NextConc ==
    \/ ConcDeposit
    \/ SubmitWithdrawal
    \/ BeginWithdrawal
    \/ FinishWithdrawal

SpecConc == Init /\ [][NextConc]_vars

----------------------------------------------------------------------------
(* C2 *)

Finishes(t) == inflight[t].status = "executing" /\ inflight'[t].status = "done"

\* C2: of the withdrawals in flight with the same pool, nullifier hash and a
\* valid proof, at most one completes; one that runs after the nullifier
\* was recorded ends with the account-exists error, and one that runs while
\* it is absent and the pool can pay completes.
C2_AtomicNullifierCheck ==
    [][ /\ \A t \in TxIds :
             Finishes(t) =>
                 IF NullifierPda(inflight[t].d, inflight[t].nh) \in nullifier
                 THEN inflight'[t].res = "AccountAlreadyInUse" /\ UNCHANGED state
                 ELSE lamports[PoolKey(inflight[t].d)] >= inflight[t].d
                      => inflight'[t].res = "Ok"
        /\ \A t, u \in TxIds :
             (/\ t # u
              /\ inflight'[t].status = "done" /\ inflight'[u].status = "done"
              /\ inflight'[t].d = inflight'[u].d /\ inflight'[t].nh = inflight'[u].nh)
             => ~(inflight'[t].res = "Ok" /\ inflight'[u].res = "Ok")
      ]_vars

\* Two withdrawals of the same note were in flight together; one completed
\* and the other ended with the account-exists error.
C2_Witness ==
    \E t, u \in TxIds :
        /\ t # u /\ u \in inflight[t].overlap
        /\ inflight[t].status = "done" /\ inflight[u].status = "done"
        /\ inflight[t].d = inflight[u].d /\ inflight[t].nh = inflight[u].nh
        /\ {inflight[t].res, inflight[u].res} = {"Ok", "AccountAlreadyInUse"}

----------------------------------------------------------------------------
(* A deposit write by write, and readers of the pool *)

\* The deposit handlers write the pool account in this order: the current
\* root into the history, then the new root and the counters.  The runtime
\* holds the pool's write lock from the first step to the last.
SteppedDepositBegin ==
    \E t \in TxIds : \E op \in {"private_deposit", "simple_deposit"} :
        LET d == HistoryPool
            c == HistoryLeaf(pool[d].next_leaf_index)
            res == IF op = "private_deposit" THEN private_deposit_result(d, c)
                   ELSE simple_deposit_result(d, c)
        IN  /\ inflight[t].status \in {"none", "done"}
            /\ ~PoolLocked(d)
            /\ pool[d].next_leaf_index < MaxSteppedDeposits
            /\ res = "Ok"
            /\ inflight' = [inflight EXCEPT ![t] =
                              [status |-> "executing", op |-> op, d |-> d, nh |-> c,
                               root |-> pool[d].merkle_root, overlap |-> {}, res |-> ""]]
            /\ UNCHANGED state

SteppedDepositArchive ==
    \E t \in TxIds :
        LET tx == inflight[t]
        IN  /\ tx.status = "executing" /\ tx.op \in {"private_deposit", "simple_deposit"}
            /\ tx.res = ""
            /\ pool' = [pool EXCEPT ![tx.d] = save_root_to_history(@)]
            /\ inflight' = [inflight EXCEPT ![t].res = "archived"]
            /\ UNCHANGED <<lamports, nullifier, leaf_account, commitment, intent, now,
                           production, deposited, saved, spent, last>>

SteppedDepositInstall ==
    \E t \in TxIds : \E merkle_root \in SuppliedRoots :
        LET tx == inflight[t]
            d == tx.d
            fee == DepositFee(pool[d].denomination)
            deposit_amount == pool[d].denomination - fee
            installed == IF tx.op = "private_deposit"
                         THEN insert_leaf_zc(pool[d], tx.nh)
                         ELSE [pool[d] EXCEPT !.merkle_root = merkle_root,
                                              !.next_leaf_index = @ + 1]
        IN  /\ tx.status = "executing" /\ tx.res = "archived"
            /\ pool' = [pool EXCEPT ![d] =
                          [installed EXCEPT !.total_deposited = @ + deposit_amount,
                                            !.deposit_count = @ + 1]]
            /\ lamports' = Credit(Credit(lamports, PoolKey(d), deposit_amount),
                                  "fee_recipient", fee)
            /\ leaf_account' = leaf_account \cup {LeafPda(d, tx.nh)}
            /\ deposited' = [deposited EXCEPT ![d] = Append(@, tx.nh)]
            /\ saved' = [saved EXCEPT ![d] = Append(@, tx.root)]
            /\ last' = Outcome(tx.op, d, tx.nh, "Ok", FALSE, FALSE)
            /\ inflight' = [inflight EXCEPT ![t].status = "done", ![t].res = "Ok"]
            /\ UNCHANGED <<nullifier, commitment, intent, now, production, spent>>

\* A reader (a withdrawal, a client) evaluates is_valid_root for the root
\* the pool had before its latest change; it holds no lock of its own and
\* runs only while no writer holds the pool.
ReadRoot ==
    LET d == HistoryPool
        previous == saved[d][Len(saved[d])]
    IN  /\ ~PoolLocked(d)
        /\ saved[d] # <<>>
        /\ last' = Outcome("is_valid_root", d, previous, "Ok",
                           is_valid_root(pool[d], previous), FALSE)
        /\ UNCHANGED <<pool, lamports, nullifier, leaf_account, commitment, intent, now,
                       production, deposited, saved, spent, inflight>>

NextStepped ==
    \/ SteppedDepositBegin
    \/ SteppedDepositArchive
    \/ SteppedDepositInstall
    \/ ReadRoot

SpecStepped == Init /\ [][NextStepped]_vars

----------------------------------------------------------------------------
(* C13 *)

\* The root pool d had before its latest change is in the history.
PreviousRootArchived(d) ==
    \E i \in 0..(ROOT_HISTORY_SIZE - 1) : pool[d].root_history[i] = saved[d][Len(saved[d])]

\* C13: in no state a reader can evaluate is_valid_root in is the pool's new
\* root current while the root before it is missing from root_history, and
\* a reader that asks for that previous root (other than the all-zero
\* value) gets it accepted.
C13_RootChangeIsOneUnit ==
    /\ \A d \in Denominations :
          (~PoolLocked(d) /\ saved[d] # <<>>) => PreviousRootArchived(d)
    /\ (last.op = "is_valid_root" /\ last.key # ZERO32) => last.root_ok

\* A reader ran between two deposits and after the second, and found the
\* root before the latest change accepted.
C13_Witness ==
    /\ last.op = "is_valid_root" /\ last.root_ok
    /\ last.key # pool[HistoryPool].merkle_root
    /\ Len(saved[HistoryPool]) >= 2
    /\ ~PoolLocked(HistoryPool)
    /\ PreviousRootArchived(HistoryPool)

----------------------------------------------------------------------------
(* C14 *)

\* Root of the subtree of height `level` whose leftmost leaf has index
\* index * 2^level, in the tree of depth MERKLE_DEPTH that holds `leaves`
\* in its first positions and the zero value in all others.
RECURSIVE SubtreeRoot(_, _, _)
SubtreeRoot(leaves, level, index) ==
    IF index * (2 ^ level) >= Len(leaves) THEN compute_zero_hashes_poseidon[level]
    ELSE IF level = 0 THEN leaves[index + 1]
    ELSE merkle_hash_2(SubtreeRoot(leaves, level - 1, 2 * index),
                       SubtreeRoot(leaves, level - 1, 2 * index + 1))

TreeRoot(leaves) == SubtreeRoot(leaves, MERKLE_DEPTH, 0)

\* C14 as stated: in every pool next_leaf_index counts the commitments
\* deposited and merkle_root is the root of the tree that holds them, in
\* order, in its first positions.
C14_RootIsTreeOfDeposits ==
    \A d \in Denominations :
        /\ pool[d].next_leaf_index = Len(deposited[d])
        /\ pool[d].merkle_root = TreeRoot(deposited[d])

----------------------------------------------------------------------------
(* Two pools fed the same leaves *)

\* Each pool takes HistoryLeaf(0), HistoryLeaf(1), ... in this order, through
\* private_deposit or simple_deposit.
TwinDeposit ==
    \E d \in Denominations :
        /\ pool[d].next_leaf_index < MaxTwinLeaves
        /\ private_deposit(d, HistoryLeaf(pool[d].next_leaf_index), TRUE)
        /\ UNCHANGED inflight

TwinSimpleDeposit ==
    \E d \in Denominations : \E merkle_root \in SuppliedRoots :
        /\ pool[d].next_leaf_index < MaxTwinLeaves
        /\ simple_deposit(d, HistoryLeaf(pool[d].next_leaf_index), merkle_root)
        /\ UNCHANGED inflight

NextTwin ==
    \/ TwinDeposit
    \/ TwinSimpleDeposit

SpecTwin == Init /\ [][NextTwin]_vars

----------------------------------------------------------------------------
(* C15 *)

\* C15 as stated: two pools that were fed the same leaves in the same order
\* have the same root.  (Every pool starts fresh and every step feeds one
\* leaf, so this covers every prefix.)
C15_SameLeavesSameRoot ==
    \A d1, d2 \in DOMAIN pool :
        deposited[d1] = deposited[d2] => pool[d1].merkle_root = pool[d2].merkle_root

----------------------------------------------------------------------------
(* C16 *)

----------------------------------------------------------------------------
(* C17 *)

\* A step in which pool d accepted one deposit, of commitment c.
DepositsOne(d, c) ==
    /\ deposited'[d] = Append(deposited[d], c)
    /\ last'.op \in {"private_deposit", "simple_deposit", "unified_deposit"}

\* C17 as stated: a successful deposit of c makes c the leaf at index
\* next_leaf_index (the root becomes the root with c inserted there) and
\* adds exactly one to next_leaf_index and to deposit_count.
C17_DepositInsertsOneLeaf ==
    [][ \A d \in Denominations : \A c \in Commitments(d) :
          DepositsOne(d, c)
              => /\ pool'[d].merkle_root
                      = compute_new_root_zc(pool[d], c, pool[d].next_leaf_index).hash
                 /\ pool'[d].next_leaf_index = pool[d].next_leaf_index + 1
                 /\ pool'[d].deposit_count = pool[d].deposit_count + 1
      ]_vars

----------------------------------------------------------------------------
(* C18 *)

\* Relayer fees a caller may name for a withdrawal from pool d.
WithdrawalFees(d) == {0, MIN_KEEPER_FEE, d \div 10, d \div 10 + 1, d, 2 * d}

\* Balances `after`: the pool gave d, the recipient got d less the fee and
\* the relayer got the fee.
PaysOut(after, d, recipient, relayer_fee) ==
    /\ after[PoolKey(d)] = lamports[PoolKey(d)] - d
    /\ after[recipient] = lamports[recipient] + d - relayer_fee
    /\ after["relayer"] = lamports["relayer"] + relayer_fee

\* C18 as stated: whatever relayer fee a withdrawal is accepted with, it
\* takes exactly the denomination from the pool, gives the recipient the
\* denomination less the fee and the relayer the fee; for private_withdraw
\* and verified_withdraw (transfer_withdrawal), reveal_and_withdraw and
\* unified_reveal.
C18_WithdrawalPaysOutDenomination ==
    \A d \in Denominations : \A relayer_fee \in WithdrawalFees(d) :
        /\ \A recipient \in Recipients :
              (withdrawal_balanced(d, relayer_fee) /\ CanPay(lamports, PoolKey(d), d))
                  => PaysOut(transfer_withdrawal(lamports, d, recipient, d, relayer_fee),
                             d, recipient, relayer_fee)
        /\ \A k \in OpenCommitments : \A p \in ShaParams :
              ShaRevealOf(k, p, d, relayer_fee, TRUE) = "Ok"
                  => PaysOut(transfer_withdrawal(lamports, d, p.recipient, d, relayer_fee),
                             d, p.recipient, relayer_fee)
        /\ \A k \in OpenCommitments : \A p \in UnifiedParams :
              \A params \in RevealParams(d, p) :
                  unified_reveal_result(k, d, p.nullifier_hash, params, TRUE, relayer_fee)
                      = "Ok"
                  => PaysOut(unified_transfer(lamports, d, params.recipient, relayer_fee),
                             d, params.recipient, relayer_fee)

----------------------------------------------------------------------------
(* C19 *)

\* The cap the handlers that have one put on the relayer's fee.
FeeCap(d) == d \div 10

\* C19 as stated: no withdrawal is accepted with a relayer fee above the
\* cap; for private_withdraw (the proof bytes and the attestation being
\* ones the build accepts).
C19_FeeAboveCapRejected ==
    \A d \in Denominations : \A relayer_fee \in WithdrawalFees(d) :
        relayer_fee > FeeCap(d)
            => \A root \in RootInputs(d) : \A nh \in NullifierHashes :
                   ~(/\ private_withdraw_result(d, root, nh, TRUE, "junk", "self_signed")
                          = "Ok"
                     /\ withdrawal_balanced(pool[d].denomination, relayer_fee))

----------------------------------------------------------------------------
(* Rejected instructions: the writes of a handler that fails *)

\* A runtime that leaves the accounts as the failed instruction wrote them.
rollback_keeps_writes(before, written) == written

\* The runtime keeps the accounts as they were when the transaction started
\* and puts them back when an instruction of it fails.
rollback(before, written) == before

\* Errors reveal_and_withdraw ends with after it has set commitment.executed.
LateRevealErrors == {"RelayerFeeTooHigh", "RelayerRequired", "InsufficientFunds"}

Idle == \A t \in TxIds : inflight[t].status # "executing"

FirstTx == {t \in TxIds : \A u \in TxIds : t <= u}

\* The runtime's record of an instruction that ran from start to end.
Attempted(op, key, res) ==
    [status |-> "done", op |-> op, d |-> 0, nh |-> key, root |-> EmptyKey,
     overlap |-> {}, res |-> res]

AttemptDeposit ==
    \E t \in FirstTx :
        /\ Idle
        /\ pool[DENOMINATION_1_SOL].next_leaf_index < MaxLeaves
        /\ unified_deposit(DENOMINATION_1_SOL, NoteCommitment(1, DENOMINATION_1_SOL))
        /\ inflight' = [inflight EXCEPT ![t] =
                          Attempted("unified_deposit", EmptyKey,
                                    unified_deposit_result(DENOMINATION_1_SOL))]

AttemptCommit ==
    \E t \in FirstTx : \E h \in ShaCommitChoices : \E min_delay_hours \in {0, 1} :
        LET d == DENOMINATION_1_SOL
        IN  /\ Idle
            /\ now = 0
            /\ Cardinality(OpenCommitments) < MaxCommitments \/ commitment[h].exists
            /\ commit_withdrawal(h, d, min_delay_hours, 2)
            /\ inflight' = [inflight EXCEPT ![t] =
                              Attempted("commit_withdrawal", h,
                                        commit_withdrawal_result(h, d, min_delay_hours, 2))]

AttemptCancel ==
    \E t \in FirstTx : \E k \in OpenCommitments :
        /\ Idle
        /\ cancel_commitment(k)
        /\ inflight' = [inflight EXCEPT ![t] =
                          Attempted("cancel_commitment", k, cancel_commitment_result(k))]

AttemptClose ==
    \E t \in FirstTx : \E k \in OpenCommitments :
        /\ Idle
        /\ close_commitment(k)
        /\ inflight' = [inflight EXCEPT ![t] =
                          Attempted("close_commitment", k, close_commitment_result(k))]

AttemptUnifiedWithdraw ==
    \E t \in FirstTx : \E nh \in {compute_nullifier_hash(NoteNullifier(1))} :
    \E address_ok \in BOOLEAN : \E relayer_fee \in RevealFees(DENOMINATION_1_SOL) :
        LET d == DENOMINATION_1_SOL
        IN  /\ Idle
            /\ unified_withdraw(d, pool[d].merkle_root, nh, OwnerOf(nh), address_ok, "junk",
                                relayer_fee)
            /\ inflight' = [inflight EXCEPT ![t] =
                              Attempted("unified_withdraw", nh,
                                        unified_withdraw_result(d, pool[d].merkle_root, nh,
                                                                address_ok, relayer_fee))]

\* reveal_and_withdraw up to and including `commitment.executed = true`.
RevealBegin ==
    \E t \in FirstTx : \E k \in OpenCommitments :
    \E p \in {q \in ShaParams : q.user_random = Fe(41) /\ q.nonce = 0} :
    \E relayer_fee \in RevealFees(DENOMINATION_1_SOL) : \E has_relayer \in BOOLEAN :
        LET d == DENOMINATION_1_SOL
            res == ShaRevealOf(k, p, d, relayer_fee, has_relayer)
        IN  /\ Idle
            /\ IF res \notin LateRevealErrors \cup {"Ok"}
               THEN /\ inflight' = [inflight EXCEPT ![t] =
                                       Attempted("reveal_and_withdraw", k, res)]
                    /\ UNCHANGED state
               ELSE /\ commitment' = [commitment EXCEPT ![k].executed = TRUE]
                    /\ inflight' = [inflight EXCEPT ![t] =
                                       [status |-> "executing", op |-> "reveal_and_withdraw",
                                        d |-> d, nh |-> k, root |-> EmptyKey, overlap |-> {},
                                        res |-> res, before |-> commitment,
                                        recipient |-> p.recipient,
                                        relayer_fee |-> relayer_fee]]
                    /\ UNCHANGED <<pool, lamports, nullifier, leaf_account, intent, now,
                                   production, deposited, saved, spent, last>>

\* The rest of reveal_and_withdraw: the fee checks and the transfers, and
\* the runtime's rollback when one of them fails.
RevealEnd ==
    \E t \in TxIds :
        LET tx == inflight[t]
        IN  /\ tx.status = "executing" /\ tx.op = "reveal_and_withdraw"
            /\ inflight' = [inflight EXCEPT ![t] =
                              Attempted("reveal_and_withdraw", tx.nh, tx.res)]
            /\ IF tx.res = "Ok"
               THEN /\ lamports' = transfer_withdrawal(lamports, tx.d, tx.recipient, tx.d,
                                                       tx.relayer_fee)
                    /\ pool' = [pool EXCEPT ![tx.d].deposit_count =
                                                IF @ = 0 THEN 0 ELSE @ - 1]
                    /\ spent' = [spent EXCEPT ![tx.d] =
                                    Append(@, [op |-> "reveal_and_withdraw",
                                               key |-> EmptyKey])]
                    /\ last' = RevealOutcome("reveal_and_withdraw", tx.d, tx.nh, "Ok",
                                             FALSE, FALSE, tx.nh)
                    /\ UNCHANGED <<commitment, nullifier, leaf_account, intent, now,
                                   production, deposited, saved>>
               ELSE /\ commitment' = rollback(tx.before, commitment)
                    /\ UNCHANGED <<pool, lamports, nullifier, leaf_account, intent, now,
                                   production, deposited, saved, spent, last>>

IdleTick ==
    /\ Idle
    /\ ClockTick

NextRollback ==
    \/ AttemptDeposit
    \/ AttemptCommit
    \/ AttemptCancel
    \/ AttemptClose
    \/ AttemptUnifiedWithdraw
    \/ RevealBegin
    \/ RevealEnd
    \/ IdleTick

SpecRollback == Init /\ [][NextRollback]_vars

----------------------------------------------------------------------------
(* C20 *)

\* Transaction t ends in this step, with an error.
EndsRejected(t) ==
    /\ inflight'[t] # inflight[t]
    /\ inflight'[t].status = "done"
    /\ inflight'[t].res # "Ok"

----------------------------------------------------------------------------
(* Commitments with every delay a caller can ask for *)

\* min_delay_hours and max_delay_hours: the hours on either side of the two
\* limits.
DelayHours == {0, 1, 2, 168, 169}

DelayInstants == {h * SECONDS_PER_HOUR + e : h \in 1..MaxDelayHours, e \in {0 - 1, 0, 1}}

\* Commitments are made within the first hour of the clock.
DelayCommit ==
    \E h \in ShaCommitChoices \ {JunkHash} :
    \E min_delay_hours, max_delay_hours \in DelayHours :
        /\ now < SECONDS_PER_HOUR
        /\ Cardinality(OpenCommitments) < MaxCommitments
        /\ commit_withdrawal(h, DENOMINATION_1_SOL, min_delay_hours, max_delay_hours)
        /\ UNCHANGED inflight

DelayUnifiedCommit ==
    \E h \in UnifiedCommitChoices : \E min_delay_hours, max_delay_hours \in DelayHours :
        /\ now < SECONDS_PER_HOUR
        /\ Cardinality(OpenCommitments) < MaxCommitments
        /\ unified_commit(h, DENOMINATION_1_SOL, min_delay_hours, max_delay_hours)
        /\ UNCHANGED inflight

\* Reveals of the parameters a commitment was made to, without a relayer.
DelayReveal ==
    \E k \in OpenCommitments :
    \E p \in {q \in ShaParams : q.proof_hash = Fe(31) /\ q.user_random = Fe(41) /\ q.nonce = 0} :
        /\ reveal_and_withdraw(k, DENOMINATION_1_SOL, p.proof_hash, p.recipient,
                               p.user_random, p.nonce, 0, FALSE)
        /\ UNCHANGED inflight

DelayUnifiedReveal ==
    \E k \in OpenCommitments :
    \E p \in {q \in UnifiedParams : q.recipient = "r1" /\ q.nonce = 0} :
        /\ unified_reveal(k, DENOMINATION_1_SOL, p.nullifier_hash,
                          [nullifier_hash |-> p.nullifier_hash, recipient |-> p.recipient,
                           user_random |-> p.user_random, nonce |-> p.nonce,
                           merkle_root |-> pool[DENOMINATION_1_SOL].merkle_root,
                           proof_data |-> "junk"],
                          TRUE, 0)
        /\ UNCHANGED inflight

DelayTick ==
    \E t \in DelayInstants :
        /\ Tick(t)
        /\ UNCHANGED inflight

NextDelay ==
    \/ FundPool
    \/ DelayCommit
    \/ DelayUnifiedCommit
    \/ DelayReveal
    \/ DelayUnifiedReveal
    \/ CancelCommitment
    \/ CloseCommitment
    \/ DelayTick

SpecDelay == Init /\ [][NextDelay]_vars

----------------------------------------------------------------------------
(* C21 *)

ThirtyMinutes == 30 * 60
SevenDays == 7 * 24 * 60 * 60

DelaysWithinBounds(min_delay, max_delay) ==
    /\ min_delay >= ThirtyMinutes
    /\ max_delay <= SevenDays
    /\ max_delay > min_delay

\* C21: both commit entry points accept only delays with min_delay of at
\* least 30 minutes, max_delay of at most 7 days and max_delay > min_delay,
\* and every commitment that exists has such delays: a commit outside the
\* bounds has created none.
C21_CommitDelayBounds ==
    /\ \A k \in CommitKeys : \A min_delay_hours, max_delay_hours \in DelayHours :
           LET within == DelaysWithinBounds(min_delay_hours * 60 * 60,
                                            max_delay_hours * 60 * 60)
           IN  /\ commit_withdrawal_result(k, DENOMINATION_1_SOL, min_delay_hours,
                                           max_delay_hours) = "Ok" => within
               /\ unified_commit_result(k, min_delay_hours, max_delay_hours) = "Ok"
                      => within
    /\ \A k \in OpenCommitments :
           DelaysWithinBounds(commitment[k].min_delay_seconds,
                              commitment[k].max_delay_seconds)

\* A commitment with the longest window there is, next to commits of another
\* hash that each break one bound and are turned away.
C21_Witness ==
    \E k \in OpenCommitments :
        /\ commitment[k].min_delay_seconds = 60 * 60
        /\ commitment[k].max_delay_seconds = SevenDays
        /\ \E h \in CommitKeys \ {k} :
               /\ commit_withdrawal_result(h, DENOMINATION_1_SOL, 0, 2) = "DelayTooShort"
               /\ commit_withdrawal_result(h, DENOMINATION_1_SOL, 1, 169) = "DelayTooLong"
               /\ commit_withdrawal_result(h, DENOMINATION_1_SOL, 2, 2) = "InvalidDelayWindow"
               /\ unified_commit_result(h, 0, 2) = "DelayTooShort"
               /\ unified_commit_result(h, 1, 169) = "DelayTooLong"
               /\ unified_commit_result(h, 2, 1) = "InvalidDelayWindow"

----------------------------------------------------------------------------
(* C22 *)

\* C22: cancelling a commitment succeeds whenever it has not been executed,
\* whatever the time since the commit (before min_delay, inside the window,
\* past max_delay), and is rejected once it has been executed.
C22_CancelUntilExecuted ==
    \A k \in OpenCommitments :
        IF commitment[k].executed
        THEN cancel_commitment_result(k) = "CommitmentAlreadyExecuted"
        ELSE cancel_commitment_result(k) = "Ok"

\* A cancellation that went through past max_delay.
C22_Witness ==
    \E k \in OpenCommitments :
        /\ last.op = "cancel_commitment"
        /\ last.key = k
        /\ commitment[k].cancelled
        /\ Elapsed(k) > commitment[k].max_delay_seconds

----------------------------------------------------------------------------
(* C23 *)

\* C23: closing a commitment succeeds exactly when it is executed, cancelled
\* or more than max_delay old; closing one that is still active fails.
C23_CloseIffDone ==
    \A k \in OpenCommitments :
        LET c == commitment[k]
            done == c.executed \/ c.cancelled \/ Elapsed(k) > c.max_delay_seconds
        IN  IF done
            THEN close_commitment_result(k) = "Ok"
            ELSE close_commitment_result(k) = "CommitmentStillActive"

\* A commitment exactly max_delay old, neither executed nor cancelled, whose
\* close is turned away.
C23_Witness ==
    \E k \in Committed :
        /\ Elapsed(k) = commitment[k].max_delay_seconds
        /\ close_commitment_result(k) = "CommitmentStillActive"

----------------------------------------------------------------------------
(* C24 *)

Expired(k) == commitment[k].exists /\ Elapsed(k) > commitment[k].max_delay_seconds

\* C24: a commitment more than max_delay old cannot be executed and can be
\* closed, cancelled or not, and it stays more than max_delay old for as long
\* as it exists.
C24_ExpiredForGood ==
    /\ [](\A k \in CommitKeys :
             Expired(k) => /\ ~WithdrawalCommitment_can_execute(commitment[k], now)
                           /\ RevealsFail(k)
                           /\ close_commitment_result(k) = "Ok")
    /\ [][\A k \in CommitKeys :
             (Expired(k) /\ commitment'[k].exists) => Expired(k)']_vars

\* A commitment that was never cancelled, an hour past its max_delay.
C24_Witness ==
    \E k \in Committed :
        Elapsed(k) >= commitment[k].max_delay_seconds + 60 * 60

----------------------------------------------------------------------------
(* C25 *)

\* C25 as stated: a withdrawal that names a recorded nullifier fails with
\* NullifierAlreadyUsed, whatever root and proof it presents, so that the
\* replay is told apart from an invalid proof and an invalid root.
C25_ReplayHasItsOwnError ==
    \A d \in Denominations : \A nh \in NullifierHashes :
        NullifierPda(d, nh) \in nullifier
            => /\ \A root \in RootInputs(d) : \A proof_bytes \in ProofBytes :
                  \A attestation \in Attestations :
                      private_withdraw_result(d, root, nh, TRUE, proof_bytes, attestation)
                          = "NullifierAlreadyUsed"
               /\ \A root \in RootInputs(d) :
                      LET public_inputs ==
                              Statement(root, nh, Fe(KeyBytes(OwnerOf(nh)).rem), d)
                      IN  \A proof \in Groth16Proofs(public_inputs) :
                              verified_withdraw_result(d, public_inputs, proof, OwnerOf(nh))
                                  = "NullifierAlreadyUsed"

----------------------------------------------------------------------------
(* C26 *)

\* C26 as stated: a withdrawal from a pool that holds less than the
\* denomination fails with InsufficientPoolBalance; for reveal_and_withdraw,
\* the reveal being of the committed parameters, inside the window and for
\* the committed denomination.
C26_ShortPoolHasItsOwnError ==
    \A k \in Committed : \A p \in ShaParams :
        LET c == commitment[k]
        IN  (/\ lamports[PoolKey(c.denomination)] < c.denomination
             /\ WithdrawalCommitment_can_execute(c, now)
             /\ ShaHash(p) = c.commitment_hash)
                => ShaRevealOf(k, p, c.denomination, 0, FALSE) = "InsufficientPoolBalance"

----------------------------------------------------------------------------
(* A tree about to be full *)

\* batch_deposit calls of ten commitments each that fit into the tree.
FullBatches == MAX_LEAVES \div 10

\* The pool at the seed alone after FullBatches calls batch_deposit(ten
\* all-zero commitments, total_amount = 0).  An all-zero leaf hashes like an
\* empty one, so the root and the filled subtrees are those of the empty
\* tree; each call pushed that root and counted ten deposits.
AlmostFullPool ==
    [InitialPool(DENOMINATION_1_SOL) EXCEPT
        !.next_leaf_index = 10 * FullBatches,
        !.deposit_count = 10 * FullBatches,
        !.root_history = [i \in 0..(ROOT_HISTORY_SIZE - 1) |->
                            compute_zero_hashes_poseidon[MERKLE_DEPTH]],
        !.root_history_index = FullBatches % ROOT_HISTORY_SIZE]

\* The histories record what happens from this state on.
InitFull ==
    /\ pool = [d \in AllPools |->
                 IF d = SinglePool THEN AlmostFullPool ELSE InitialPool(d)]
    /\ lamports = [a \in Accounts \cup {PoolKey(SinglePool), "vault"} |->
                     IF a \in {PoolKey(d) : d \in AllPools} THEN PoolRentReserve ELSE 0]
    /\ nullifier = {}
    /\ leaf_account = {}
    /\ commitment = [k \in CommitKeys |-> NoAccount]
    /\ intent = [i \in IntentIds |-> NoAccount]
    /\ now = 0
    /\ production \in BOOLEAN
    /\ inflight = [t \in TxIds |-> NoTx]
    /\ deposited = [d \in AllPools |-> <<>>]
    /\ saved = [d \in AllPools |-> <<>>]
    /\ spent = [d \in AllPools |-> <<>>]
    /\ last = Outcome("batch_deposit", SinglePool, ZERO32, "Ok", FALSE, FALSE)

FullBatchDeposit ==
    \E n \in 1..MaxBatch : \E total_amount \in {0, n * pool[SinglePool].denomination} :
        /\ pool[SinglePool].next_leaf_index + n <= MAX_LEAVES + MaxOverCapacity
        /\ batch_deposit(NextLeaves(Len(deposited[SinglePool]), n), total_amount)
        /\ UNCHANGED inflight

FullConfidentialDeposit ==
    \E attestation \in BulletproofAttestations :
        /\ pool[SinglePool].next_leaf_index < MAX_LEAVES + MaxOverCapacity
        /\ confidential_deposit(HistoryLeaf(Len(deposited[SinglePool])),
                                pool[SinglePool].denomination, attestation)
        /\ UNCHANGED inflight

NextFull ==
    \/ FullBatchDeposit
    \/ FullConfidentialDeposit

SpecFull == InitFull /\ [][NextFull]_vars

----------------------------------------------------------------------------
(* C27 *)

----------------------------------------------------------------------------
(* Groth16 verification of every shape of input *)

\* The 32 big-endian bytes of a number below 256.
SmallScalar(n) == [i \in 1..32 |-> IF i = 32 THEN n ELSE 0]

\* The 32 bytes of the modulus r of the BN254 scalar field,
\* 21888242871839275222246405745257275088548364400416034343698204186575808495617.
BN254_R ==
    <<48, 100, 78, 114, 225, 49, 160, 41,
      184, 80, 69, 182, 129, 129, 88, 93,
      40, 51, 232, 72, 121, 185, 112, 145,
      67, 225, 245, 147, 240, 0, 0, 1>>

\* a < b for two big-endian byte strings of one length.
BelowBytes(a, b) ==
    \E i \in 1..Len(a) : a[i] < b[i] /\ \A j \in 1..(i - 1) : a[j] = b[j]

\* A scalar of the field, SCALAR_FIELD_MODULUS itself, and the largest 32
\* bytes.
ScalarChoices == {SmallScalar(7), SCALAR_FIELD_MODULUS, [i \in 1..32 |-> 255]}

PointChoices == {"zero", "off_curve", "point"}

\* The pairing product can be one only for three curve points.
ProofChoicesGroth16 ==
    {[pi_a |-> a, pi_b |-> b, pi_c |-> c, pairing |-> FALSE] :
        a \in PointChoices, b \in PointChoices, c \in PointChoices}
    \cup {[pi_a |-> "point", pi_b |-> "point", pi_c |-> "point", pairing |-> TRUE]}

\* Lists of scalars of the field whose last entry is any of the choices.
PublicInputChoices ==
    {[i \in 1..n |-> IF i = n THEN last_input ELSE SmallScalar(i)] :
        n \in (MaxPublicInputs - 1)..MaxPublicInputs, last_input \in ScalarChoices}

\* One call of verify_groth16; `last` keeps what went in and what came out.
VerifyGroth16 ==
    \E proof \in ProofChoicesGroth16 : \E public_inputs \in PublicInputChoices :
    \E ic_len \in {MaxPublicInputs, MaxPublicInputs + 1} :
        /\ last' = Outcome("verify_groth16", 0,
                           [proof |-> proof, public_inputs |-> public_inputs,
                            ic_len |-> ic_len],
                           verify_groth16_result(proof, public_inputs, ic_len),
                           FALSE, proof.pairing)
        /\ UNCHANGED <<pool, lamports, nullifier, leaf_account, commitment, intent, now,
                       production, inflight, deposited, saved, spent>>

NextGroth16 == VerifyGroth16

SpecGroth16 == Init /\ [][NextGroth16]_vars

----------------------------------------------------------------------------
(* C28 *)

Malformed(in) ==
    \/ Len(in.public_inputs) + 1 # in.ic_len
    \/ "zero" \in {in.proof.pi_a, in.proof.pi_b, in.proof.pi_c}
    \/ \E i \in 1..Len(in.public_inputs) : ~BelowBytes(in.public_inputs[i], BN254_R)

\* C28 as stated: verify_groth16 ends in an error exactly when the number of
\* IC points is not the number of public inputs plus one, a proof point is
\* all zero or a public input is not below the modulus of the scalar field;
\* otherwise it returns false for a proof that does not verify.
C28_ErrorIffMalformed ==
    last.op = "verify_groth16"
        => /\ Malformed(last.key) <=> last.res \notin {"true", "false"}
           /\ (~Malformed(last.key) /\ ~last.proof_ok) => last.res = "false"

----------------------------------------------------------------------------
(* The dual-key stealth address protocol of the command line client *)

\* The largest secret scalar of a key pair.
MaxKeySecret == 2

\* Order of the prime-order group generated by ED25519_BASEPOINT_POINT, scaled
\* down to a small prime: Scalar::from_bytes_mod_order reduces modulo it.
GroupOrder == 7

\* A scalar is an integer modulo the group order plus, for a derived spending
\* scalar, the data whose SHA-256 digest was added to it: digests are kept as
\* terms, as everywhere in this model, so two of them are equal only when the
\* hashed data are.
Scalar(k) == [base |-> k % GroupOrder, hash |-> <<>>]

scalar_add(a, b) == [base |-> (a.base + b.base) % GroupOrder, hash |-> a.hash \o b.hash]

\* A point of the group is known by its discrete logarithm to the base point.
basepoint_mul(scalar) == [dlog |-> scalar]

\* scalar * point, for a plain scalar and a point without a digest part.
point_mul(scalar, point) == basepoint_mul(Scalar(scalar.base * point.dlog.base))

point_add(p, q) == basepoint_mul(scalar_add(p.dlog, q.dlog))

\* EdwardsPoint::compress().to_bytes()
compress(point) == <<point.dlog.base>> \o point.dlog.hash

NoneValue == [some |-> FALSE]

SomeValue(v) == [some |-> TRUE, value |-> v]

decompress_point(bytes) ==
    IF /\ Len(bytes) \in {1, 2}
       /\ \A i \in 1..Len(bytes) : bytes[i] \in 0..(GroupOrder - 1)
    THEN SomeValue(basepoint_mul([base |-> bytes[1], hash |-> SubSeq(bytes, 2, Len(bytes))]))
    ELSE NoneValue

hash_to_scalar(data) == [base |-> 0, hash |-> data]

from_secrets(scan_secret_bytes, spend_secret_bytes) ==
    LET scan_scalar == Scalar(scan_secret_bytes)
        spend_scalar == Scalar(spend_secret_bytes)
    IN  [scan_secret |-> scan_scalar, spend_secret |-> spend_scalar,
         scan_pubkey |-> compress(basepoint_mul(scan_scalar)),
         spend_pubkey |-> compress(basepoint_mul(spend_scalar))]

\* compute_stealth_address, with the scalar drawn by random_scalar as its
\* third argument.
compute_stealth_address(scan_pubkey, spend_pubkey, ephemeral_scalar) ==
    LET ephemeral_pubkey == basepoint_mul(ephemeral_scalar)
        scan_point == decompress_point(scan_pubkey)
        spend_point == decompress_point(spend_pubkey)
        shared_secret == point_mul(ephemeral_scalar, scan_point.value)
        hash_scalar == hash_to_scalar(compress(shared_secret))
        stealth_point == point_add(spend_point.value, basepoint_mul(hash_scalar))
    IN  IF ~scan_point.some \/ ~spend_point.some THEN NoneValue
        ELSE SomeValue([stealth_pubkey |-> compress(stealth_point),
                        ephemeral_pubkey |-> compress(ephemeral_pubkey),
                        ephemeral_secret |-> ephemeral_scalar])

scan_payment_spend_secret_shared(keys, ephemeral_pubkey, payment_address) ==
    LET ephemeral_point == decompress_point(ephemeral_pubkey)
        spend_point == decompress_point(keys.spend_pubkey)
        shared_secret == point_mul(keys.spend_secret, ephemeral_point.value)
        hash_scalar == hash_to_scalar(compress(shared_secret))
        expected_point == point_add(spend_point.value, basepoint_mul(hash_scalar))
    IN  IF ~ephemeral_point.some \/ ~spend_point.some THEN NoneValue
        ELSE IF compress(expected_point) = payment_address
             THEN SomeValue([stealth_address |-> payment_address,
                             spending_key |-> scalar_add(keys.spend_secret, hash_scalar)])
             ELSE NoneValue

scan_payment_any_address(keys, ephemeral_pubkey, payment_address) ==
    LET ephemeral_point == decompress_point(ephemeral_pubkey)
        spend_point == decompress_point(keys.spend_pubkey)
        shared_secret == point_mul(keys.scan_secret, ephemeral_point.value)
        hash_scalar == hash_to_scalar(compress(shared_secret))
    IN  IF ~ephemeral_point.some \/ ~spend_point.some THEN NoneValue
        ELSE SomeValue([stealth_address |-> payment_address,
                        spending_key |-> scalar_add(keys.spend_secret, hash_scalar)])

scan_payment(keys, ephemeral_pubkey, payment_address) ==
    LET ephemeral_point == decompress_point(ephemeral_pubkey)
        spend_point == decompress_point(keys.spend_pubkey)
        shared_secret == point_mul(keys.scan_secret, ephemeral_point.value)
        hash_scalar == hash_to_scalar(compress(shared_secret))
        expected_point == point_add(spend_point.value, basepoint_mul(hash_scalar))
    IN  IF ~ephemeral_point.some \/ ~spend_point.some THEN NoneValue
        ELSE IF compress(expected_point) = payment_address
             THEN SomeValue([stealth_address |-> payment_address,
                             spending_key |-> scalar_add(keys.spend_secret, hash_scalar)])
             ELSE NoneValue

check_payment_without_digest(scan_secret, spend_pubkey, ephemeral_pubkey, payment_address) ==
    LET ephemeral_point == decompress_point(ephemeral_pubkey)
        spend_point == decompress_point(spend_pubkey)
    IN  IF ~ephemeral_point.some THEN FALSE
        ELSE IF ~spend_point.some THEN FALSE
        ELSE compress(spend_point.value) = payment_address

check_payment(scan_secret, spend_pubkey, ephemeral_pubkey, payment_address) ==
    LET ephemeral_point == decompress_point(ephemeral_pubkey)
        shared_secret == point_mul(scan_secret, ephemeral_point.value)
        hash_scalar == hash_to_scalar(compress(shared_secret))
        spend_point == decompress_point(spend_pubkey)
        expected_stealth == point_add(spend_point.value, basepoint_mul(hash_scalar))
    IN  IF ~ephemeral_point.some THEN FALSE
        ELSE IF ~spend_point.some THEN FALSE
        ELSE compress(expected_stealth) = payment_address

\* Key pairs of every combination of secrets, two of which may share the scan
\* key or the spend key.
KeyPairs == {from_secrets(s, b) : s \in 0..MaxKeySecret, b \in 0..MaxKeySecret}

\* What random_scalar returns: 32 bytes of the operating system's entropy
\* reduced modulo the group order. Zero has the odds of a SHA-256 collision
\* (one in the group order) and is left out with the collisions.
EphemeralScalars == {Scalar(r) : r \in 1..(GroupOrder - 1)}

\* A sender computes a stealth address for the meta-address of a key pair.
ComputeStealthAddress ==
    \E keys \in KeyPairs : \E r \in EphemeralScalars :
        /\ last' = Outcome("compute_stealth_address", 0,
                           [recipient |-> keys,
                            computation |-> compute_stealth_address(
                                keys.scan_pubkey, keys.spend_pubkey, r)],
                           "Ok", FALSE, FALSE)
        /\ UNCHANGED <<pool, lamports, nullifier, leaf_account, commitment, intent, now,
                       production, inflight, deposited, saved, spent>>

\* The holder of a key pair scans the announcement of the last computation.
ScanPayment ==
    /\ last.op = "compute_stealth_address"
    /\ last.key.computation.some
    /\ \E keys \in KeyPairs :
        LET computation == last.key.computation.value
        IN  last' = Outcome("scan_payment", 0,
                            [recipient |-> last.key.recipient,
                             computation |-> computation,
                             keys |-> keys,
                             scan_result |-> scan_payment(
                                 keys, computation.ephemeral_pubkey,
                                 computation.stealth_pubkey)],
                            "Ok", FALSE, FALSE)
    /\ UNCHANGED <<pool, lamports, nullifier, leaf_account, commitment, intent, now,
                   production, inflight, deposited, saved, spent>>

\* 32 bytes that are no compressed point of the curve.
NoPointBytes == <<GroupOrder>>

\* The holder of a view key checks an announcement: the ephemeral key and the
\* address of the last computation, or bytes that anyone may have announced.
CheckPayment ==
    /\ last.op = "compute_stealth_address"
    /\ last.key.computation.some
    /\ \E keys \in KeyPairs :
       \E ephemeral_pubkey \in {last.key.computation.value.ephemeral_pubkey, NoPointBytes} :
       \E payment_address \in {last.key.computation.value.stealth_pubkey,
                                keys.spend_pubkey, NoPointBytes} :
           last' = Outcome("check_payment", 0,
                           [keys |-> keys,
                            ephemeral_pubkey |-> ephemeral_pubkey,
                            payment_address |-> payment_address,
                            detected |-> check_payment(keys.scan_secret, keys.spend_pubkey,
                                                       ephemeral_pubkey, payment_address),
                            scan_result |-> scan_payment(keys, ephemeral_pubkey,
                                                         payment_address)],
                           "Ok", FALSE, FALSE)
    /\ UNCHANGED <<pool, lamports, nullifier, leaf_account, commitment, intent, now,
                   production, inflight, deposited, saved, spent>>

NextDksap == ComputeStealthAddress \/ ScanPayment \/ CheckPayment

SpecDksap == Init /\ [][NextDksap]_vars

----------------------------------------------------------------------------
(* C29 *)

\* C29: scanning the ephemeral key and the stealth address that
\* compute_stealth_address returned for a key pair's meta-address, with that
\* key pair, always returns Some, and the spending scalar it returns times
\* the base point is the stealth address.
C29_DksapCorrectness ==
    /\ last.op = "compute_stealth_address" => last.key.computation.some
    /\ (last.op = "scan_payment" /\ last.key.keys = last.key.recipient)
           => /\ last.key.scan_result.some
              /\ compress(basepoint_mul(last.key.scan_result.value.spending_key))
                     = last.key.computation.stealth_pubkey

C29_Witness ==
    /\ last.op = "scan_payment"
    /\ last.key.keys = last.key.recipient
    /\ last.key.keys.scan_secret # last.key.keys.spend_secret
    /\ last.key.scan_result.some
    /\ last.key.scan_result.value.spending_key.hash # <<>>

----------------------------------------------------------------------------
(* C30 *)

\* C30: a payment computed for one key pair is never detected by
\* scan_payment with a different key pair, whether the two differ in the scan
\* key, in the spend key or in both.
C30_WrongRecipientRejected ==
    (last.op = "scan_payment" /\ last.key.keys # last.key.recipient)
        => ~last.key.scan_result.some

C30_Witness ==
    /\ last.op = "scan_payment"
    /\ last.key.keys # last.key.recipient
    /\ last.key.keys.spend_pubkey = last.key.recipient.spend_pubkey
    /\ last.key.keys.scan_secret.base # 0
    /\ last.key.recipient.scan_secret.base # 0
    /\ ~last.key.scan_result.some

----------------------------------------------------------------------------
(* C31 *)

\* C31: check_payment, which takes the scan secret and the spend public key
\* and returns a boolean, returns true exactly when scan_payment with the key
\* pair of that scan secret and spend public key returns Some for the same
\* ephemeral key and payment address.
C31_ViewKeyAgreesWithScan ==
    last.op = "check_payment"
        => /\ last.key.detected \in BOOLEAN
           /\ last.key.detected <=> last.key.scan_result.some

C31_Witness ==
    /\ last.op = "check_payment"
    /\ last.key.detected
    /\ last.key.scan_result.some
    /\ last.key.keys.scan_secret # last.key.keys.spend_secret

----------------------------------------------------------------------------
(* Meta-addresses of the command line client *)

\* Bytes of a public key in a meta-address, scaled down from 32.
MetaKeyBytes == 2

\* Byte values that exercise leading zeros, the base and the largest byte.
ByteChoices == {0, 1, 58, 255}

Base58Alphabet ==
    <<"1", "2", "3", "4", "5", "6", "7", "8", "9", "A", "B", "C", "D", "E", "F",
     "G", "H", "J", "K", "L", "M", "N", "P", "Q", "R", "S", "T", "U", "V", "W",
     "X", "Y", "Z", "a", "b", "c", "d", "e", "f", "g", "h", "i", "j", "k", "m",
     "n", "o", "p", "q", "r", "s", "t", "u", "v", "w", "x", "y", "z">>

Base58Value(ch) == CHOOSE i \in 1..Len(Base58Alphabet) : Base58Alphabet[i] = ch

Reversed(q) == [i \in 1..Len(q) |-> q[Len(q) + 1 - i]]

RECURSIVE LeadingCount(_, _)
LeadingCount(q, x) ==
    IF q = <<>> \/ q[1] # x THEN 0 ELSE 1 + LeadingCount(Tail(q), x)

\* One step of the base conversion of the bs58 crate: the little-endian
\* digits times `mul` plus `carry`, in base `base`, digit by digit.
RECURSIVE MulAddDigits(_, _, _, _)
MulAddDigits(digits, carry, mul, base) ==
    IF digits = <<>>
    THEN IF carry = 0 THEN <<>>
         ELSE <<carry % base>> \o MulAddDigits(<<>>, carry \div base, mul, base)
    ELSE LET v == digits[1] * mul + carry
         IN  <<v % base>> \o MulAddDigits(Tail(digits), v \div base, mul, base)

RECURSIVE ConvertDigits(_, _, _, _)
ConvertDigits(input, digits, mul, base) ==
    IF input = <<>> THEN digits
    ELSE ConvertDigits(Tail(input), MulAddDigits(digits, input[1], mul, base), mul, base)

\* bs58::encode(bytes).into_string(): a '1' for every leading zero byte.
bs58_encode(bytes) ==
    LET digits == ConvertDigits(bytes, <<>>, 256, 58)
        all == digits \o [i \in 1..LeadingCount(bytes, 0) |-> 0]
    IN  Reversed([i \in 1..Len(all) |-> Base58Alphabet[all[i] + 1]])

\* bs58::decode(encoded).into_vec(): an error for a character outside the
\* alphabet, a zero byte for every leading '1'.
bs58_decode(encoded) ==
    IF \E i \in 1..Len(encoded) : encoded[i] \notin SeqRange(Base58Alphabet)
    THEN NoneValue
    ELSE LET values == [i \in 1..Len(encoded) |-> Base58Value(encoded[i]) - 1]
             bytes == ConvertDigits(values, <<>>, 58, 256)
         IN  SomeValue(Reversed(bytes \o [i \in 1..LeadingCount(encoded, "1") |-> 0]))

StealthPrefix == <<"s", "t", "e", "a", "l", "t", "h", ":">>

\* str::strip_prefix
strip_prefix(input, prefix) ==
    IF Len(input) >= Len(prefix) /\ SubSeq(input, 1, Len(prefix)) = prefix
    THEN SomeValue(SubSeq(input, Len(prefix) + 1, Len(input)))
    ELSE NoneValue

format_meta_address(scan_pubkey, spend_pubkey) ==
    LET combined == scan_pubkey \o spend_pubkey
    IN  StealthPrefix \o bs58_encode(combined)

parse_meta_address_prefix_kept(input) ==
    LET bytes == bs58_decode(input)
    IN  IF ~bytes.some THEN [ok |-> FALSE, error |-> "bs58::decode::Error"]
        ELSE IF Len(bytes.value) # 2 * MetaKeyBytes
        THEN [ok |-> FALSE, error |-> "Invalid meta-address length"]
        ELSE [ok |-> TRUE,
              scan_pubkey |-> SubSeq(bytes.value, 1, MetaKeyBytes),
              spend_pubkey |-> SubSeq(bytes.value, MetaKeyBytes + 1, 2 * MetaKeyBytes)]

parse_meta_address(input) ==
    LET stripped == strip_prefix(input, StealthPrefix)
        encoded == IF stripped.some THEN stripped.value ELSE input
        bytes == bs58_decode(encoded)
    IN  IF ~bytes.some THEN [ok |-> FALSE, error |-> "bs58::decode::Error"]
        ELSE IF Len(bytes.value) # 2 * MetaKeyBytes
        THEN [ok |-> FALSE, error |-> "Invalid meta-address length"]
        ELSE [ok |-> TRUE,
              scan_pubkey |-> SubSeq(bytes.value, 1, MetaKeyBytes),
              spend_pubkey |-> SubSeq(bytes.value, MetaKeyBytes + 1, 2 * MetaKeyBytes)]

PubkeyChoices == [1..MetaKeyBytes -> ByteChoices]

\* A meta-address is formatted for display.
FormatMetaAddress ==
    \E scan_pubkey \in PubkeyChoices : \E spend_pubkey \in PubkeyChoices :
        /\ last' = Outcome("format_meta_address", 0,
                           [scan_pubkey |-> scan_pubkey, spend_pubkey |-> spend_pubkey,
                            formatted |-> format_meta_address(scan_pubkey, spend_pubkey)],
                           "Ok", FALSE, FALSE)
        /\ UNCHANGED <<pool, lamports, nullifier, leaf_account, commitment, intent, now,
                       production, inflight, deposited, saved, spent>>

\* The displayed meta-address is parsed: as it was formatted, without its
\* prefix, or cut short by a character.
ParseMetaAddress ==
    /\ last.op = "format_meta_address"
    /\ \E input \in {last.key.formatted,
                      SubSeq(last.key.formatted, Len(StealthPrefix) + 1,
                             Len(last.key.formatted)),
                      SubSeq(last.key.formatted, 1, Len(last.key.formatted) - 1)} :
           last' = Outcome("parse_meta_address", 0,
                           [scan_pubkey |-> last.key.scan_pubkey,
                            spend_pubkey |-> last.key.spend_pubkey,
                            formatted |-> last.key.formatted,
                            input |-> input,
                            parsed |-> parse_meta_address(input)],
                           "Ok", FALSE, FALSE)
    /\ UNCHANGED <<pool, lamports, nullifier, leaf_account, commitment, intent, now,
                   production, inflight, deposited, saved, spent>>

NextMeta == FormatMetaAddress \/ ParseMetaAddress

SpecMeta == Init /\ [][NextMeta]_vars

----------------------------------------------------------------------------
(* C32 *)

\* C32: parsing the string that format_meta_address made of a scan key and a
\* spend key returns exactly that scan key and that spend key, for every pair
\* of keys.
C32_MetaAddressRoundTrip ==
    (last.op = "parse_meta_address" /\ last.key.input = last.key.formatted)
        => /\ last.key.parsed.ok
           /\ last.key.parsed.scan_pubkey = last.key.scan_pubkey
           /\ last.key.parsed.spend_pubkey = last.key.spend_pubkey

\* A round trip of keys with leading zero bytes.
C32_Witness ==
    /\ last.op = "parse_meta_address"
    /\ last.key.input = last.key.formatted
    /\ last.key.scan_pubkey[1] = 0
    /\ last.key.spend_pubkey[1] = 255
    /\ last.key.parsed.ok
    /\ last.key.parsed.scan_pubkey = last.key.scan_pubkey

----------------------------------------------------------------------------
(* C33 *)

\* C33 as stated: every successful withdrawal from a pool, through any of the
\* paying entry points, increases the pool's withdrawal_count by one and its
\* total_withdrawn by the denomination, and leaves deposit_count and
\* total_deposited as they were.
C33_WithdrawalCounters ==
    [][\A d \in Denominations :
          (/\ Len(spent'[d]) = Len(spent[d]) + 1
           /\ spent'[d][Len(spent'[d])].op \in PayingEntryPoints)
              => /\ pool'[d].withdrawal_count = pool[d].withdrawal_count + 1
                 /\ pool'[d].total_withdrawn = pool[d].total_withdrawn + d
                 /\ pool'[d].deposit_count = pool[d].deposit_count
                 /\ pool'[d].total_deposited = pool[d].total_deposited]_vars

----------------------------------------------------------------------------
(* C34 *)

\* C34: no commitment account is both executed and cancelled; every reveal of
\* a cancelled commitment and every cancel of an executed one is rejected;
\* and no instruction takes either flag of a commitment account back to
\* false.
C34_TerminalStatesExclusive ==
    /\ [](\A k \in OpenCommitments :
            /\ ~(commitment[k].executed /\ commitment[k].cancelled)
            /\ commitment[k].cancelled
                   => "Ok" \notin ShaRevealResults(k) \cup UnifiedRevealResults(k)
            /\ commitment[k].executed => cancel_commitment_result(k) # "Ok")
    /\ [][\A k \in CommitKeys :
              (commitment[k].exists /\ commitment'[k].exists)
                  => /\ commitment[k].executed => commitment'[k].executed
                     /\ commitment[k].cancelled => commitment'[k].cancelled]_vars

\* A cancelled commitment inside its window, the pool able to pay, and the
\* reveal of its own parameters turned away for the cancellation.
C34_Witness ==
    \E k \in OpenCommitments : \E p \in ShaParams :
        LET c == commitment[k]
        IN  /\ c.cancelled
            /\ now - c.commit_timestamp >= c.min_delay_seconds
            /\ now - c.commit_timestamp <= c.max_delay_seconds
            /\ CanPay(lamports, PoolKey(c.denomination), c.denomination)
            /\ ShaHash(p) = c.commitment_hash
            /\ ShaRevealOf(k, p, c.denomination, 0, FALSE) = "CommitmentCancelled"

----------------------------------------------------------------------------
(* Pools that are not active *)

\* A pool after one unified_deposit.
FundedPool(d) ==
    [InitialPool(d) EXCEPT !.deposit_count = 1, !.total_deposited = d,
                           !.next_leaf_index = 1]

\* Every pool holds one deposit, and any of them has is_active = false.  No
\* instruction of the program clears the flag that initialize_pool sets: the
\* handlers read it from the account, whoever wrote it.
InitPaused ==
    /\ \E paused \in SUBSET Denominations :
           pool = [d \in Denominations |->
                      [FundedPool(d) EXCEPT !.is_active = d \notin paused]]
    /\ lamports = [a \in Accounts |->
                     IF \E d \in Denominations : a = PoolKey(d)
                     THEN PoolRentReserve + (CHOOSE d \in Denominations : a = PoolKey(d))
                     ELSE 0]
    /\ nullifier = {}
    /\ leaf_account = {}
    /\ commitment = [k \in CommitKeys |-> NoAccount]
    /\ intent = [i \in IntentIds |-> NoAccount]
    /\ now = 0
    /\ production \in BOOLEAN
    /\ inflight = [t \in TxIds |-> NoTx]
    /\ deposited = [d \in Denominations |-> <<NoteCommitment(1, d)>>]
    /\ saved = [d \in Denominations |-> <<>>]
    /\ spent = [d \in Denominations |-> <<>>]
    /\ last = Outcome("unified_deposit", DENOMINATION_1_SOL,
                      NoteCommitment(1, DENOMINATION_1_SOL), "Ok", FALSE, FALSE)

NextPaused ==
    \/ CommitWithdrawal
    \/ RevealAndWithdraw
    \/ SubmitKeeperIntent
    \/ ExecuteKeeperIntent
    \/ KeeperTick
    \/ ClockTick

SpecPaused == InitPaused /\ [][NextPaused]_vars

----------------------------------------------------------------------------
(* C35 *)

----------------------------------------------------------------------------
(* C36 *)

\* Commitments deposited into pool d and not yet paid out.
Unspent(d) ==
    IF Len(deposited[d]) > Cardinality(PaidSpends(d))
    THEN Len(deposited[d]) - Cardinality(PaidSpends(d)) ELSE 0

\* C36 as stated: at every reachable state the lamports of a pool account,
\* its rent reserve included, are at least the denomination times the number
\* of commitments deposited into the pool and not yet withdrawn.
C36_PoolSolvent ==
    \A d \in Denominations : lamports[PoolKey(d)] >= d * Unspent(d)

----------------------------------------------------------------------------
(* Keeper intents around their windows *)

CancelKeeperIntent ==
    \E id \in IntentIds :
        /\ intent[id].exists
        /\ cancel_keeper_intent(id)
        /\ UNCHANGED inflight

\* Time passes to the second before a window, its first and last second, or
\* the second after it.
KeeperClock ==
    \E id \in IntentIds :
        /\ intent[id].exists
        /\ \E t \in {intent[id].window_start - 1, intent[id].window_start,
                     intent[id].window_end, intent[id].window_end + 1} : Tick(t)
        /\ UNCHANGED inflight

NextKeeper ==
    \/ FundPool
    \/ SubmitKeeperIntent
    \/ ExecuteKeeperIntent
    \/ CancelKeeperIntent
    \/ KeeperClock

SpecKeeper == Init /\ [][NextKeeper]_vars

----------------------------------------------------------------------------
(* C37 *)

\* The outcomes of every execute_keeper_intent naming intent id.
KeeperExecuteResults(id) ==
    {execute_keeper_intent_result(id, d, nh, att) :
        d \in Denominations, nh \in NullifierHashes, att \in KeeperAttestations}

\* C37: every execution of an intent before window_start, after window_end or
\* after a successful execution is rejected; an executed intent stays
\* executed; and cancel_keeper_intent is accepted only for an unexecuted
\* intent at a time outside the window.
C37_KeeperWindow ==
    /\ [](\A id \in IntentIds :
            intent[id].exists
                => /\ (\/ now < intent[id].window_start
                       \/ now > intent[id].window_end
                       \/ intent[id].executed)
                          => "Ok" \notin KeeperExecuteResults(id)
                   /\ cancel_keeper_intent_result(id) = "Ok"
                          => /\ ~intent[id].executed
                             /\ now < intent[id].window_start
                                    \/ now > intent[id].window_end)
    /\ [][\A id \in IntentIds :
              intent[id].exists
                  => /\ intent[id].executed
                         => intent'[id].exists /\ intent'[id].executed
                     /\ (~intent[id].executed /\ intent'[id].exists /\ intent'[id].executed)
                         => /\ now >= intent[id].window_start
                            /\ now <= intent[id].window_end]_vars

\* An executed intent in the last second of its window, the pool able to
\* pay again, and a second execution with a keeper's attestation rejected.
C37_Witness ==
    \E id \in IntentIds : \E nh \in NullifierHashes :
        LET it == intent[id]
        IN  /\ it.exists /\ it.executed
            /\ now = it.window_end
            /\ CanPay(lamports, PoolKey(it.denomination), it.denomination)
            /\ NullifierPda(it.denomination, nh) \notin nullifier
            /\ execute_keeper_intent_result(id, it.denomination, nh, "keeper_signed")
                   = "IntentAlreadyExecuted"

----------------------------------------------------------------------------
(* The range check of the public inputs *)

\* b with byte i moved by delta, where that is a byte.
Nudged(b, i, delta) ==
    [b EXCEPT ![i] = IF @ + delta \in 0..255 THEN @ + delta ELSE @]

\* Scalars on both sides of the modulus r and of SCALAR_FIELD_MODULUS, one
\* byte away from them at every position, and the smallest and the largest.
RangeCheckChoices ==
    {Nudged(b, i, delta) :
        b \in {BN254_R, SCALAR_FIELD_MODULUS}, i \in 1..32, delta \in {0 - 1, 0, 1}}
    \cup {SmallScalar(0), SmallScalar(1), [i \in 1..32 |-> 255]}

IsValidScalar ==
    \E scalar \in RangeCheckChoices :
        /\ last' = Outcome("is_valid_scalar", 0, scalar,
                           IF is_valid_scalar(scalar) THEN "true" ELSE "false",
                           FALSE, FALSE)
        /\ UNCHANGED <<pool, lamports, nullifier, leaf_account, commitment, intent, now,
                       production, inflight, deposited, saved, spent>>

NextScalar == IsValidScalar

SpecScalar == Init /\ [][NextScalar]_vars

----------------------------------------------------------------------------
(* C38 *)

\* C38 as stated: is_valid_scalar accepts 32 big-endian bytes exactly when
\* their value is below the modulus r of the BN254 scalar field; r itself and
\* every larger value are rejected.
C38_ValidIffBelowR ==
    last.op = "is_valid_scalar"
        => (last.res = "true" <=> BelowBytes(last.key, BN254_R))

----------------------------------------------------------------------------
(* The reduction of a public key to a field element *)

\* Every two-limb public key.
PubkeyValues == 0..(LimbBase * LimbBase - 1)

\* Reduced values around zero, the keys of the model, the modulus and the
\* largest two-limb value.
ReducedValues ==
    {0, 1, 100, FieldModulus - 1, FieldModulus, FieldModulus + 1, LimbBase * LimbBase - 1}

\* The inputs of one call are drawn at the start.
InitReduction ==
    /\ pool = [d \in Denominations |-> InitialPool(d)]
    /\ lamports = [a \in Accounts |->
                     IF a \in {PoolKey(d) : d \in Denominations} THEN PoolRentReserve ELSE 0]
    /\ nullifier = {}
    /\ leaf_account = {}
    /\ commitment = [k \in CommitKeys |-> NoAccount]
    /\ intent = [i \in IntentIds |-> NoAccount]
    /\ now = 0
    /\ production = FALSE
    /\ inflight = [t \in TxIds |-> NoTx]
    /\ deposited = [d \in Denominations |-> <<>>]
    /\ saved = [d \in Denominations |-> <<>>]
    /\ spent = [d \in Denominations |-> <<>>]
    /\ \E pubkey \in PubkeyValues : \E reduced \in ReducedValues :
           last = Outcome("input", 0, [pubkey |-> pubkey, reduced |-> reduced],
                          "Ok", FALSE, FALSE)

VerifyFieldReduction ==
    /\ last.op = "input"
    /\ last' = Outcome("verify_field_reduction", 0, last.key,
                       IF verify_field_reduction(
                              [q |-> last.key.pubkey \div FieldModulus,
                               rem |-> last.key.pubkey % FieldModulus],
                              Fe(last.key.reduced))
                       THEN "true" ELSE "false",
                       FALSE, FALSE)
    /\ UNCHANGED <<pool, lamports, nullifier, leaf_account, commitment, intent, now,
                   production, inflight, deposited, saved, spent>>

NextReduction == VerifyFieldReduction

SpecReduction == InitReduction /\ [][NextReduction]_vars

----------------------------------------------------------------------------
(* C39 *)

\* C39 as stated: verify_field_reduction(pubkey, reduced) is true exactly
\* when reduced is below the modulus and pubkey is congruent to reduced
\* modulo it, for every pubkey.
C39_TrueIffCongruent ==
    last.op = "verify_field_reduction"
        => (last.res = "true"
               <=> /\ last.key.reduced < FieldModulus
                   /\ last.key.pubkey % FieldModulus = last.key.reduced)

----------------------------------------------------------------------------
(* Field arithmetic of the Poseidon implementation *)

\* A u64 limb, scaled down to three bits.
WordBase == 2 ^ 3

\* The four limbs of the modulus, least significant first, scaled down
\* alike: a prime of four limbs whose top limb is not zero.
BN254_MODULUS == <<5, 0, 4, 1>>

RECURSIVE LimbsValue(_)
LimbsValue(limbs) ==
    IF limbs = <<>> THEN 0 ELSE limbs[1] + WordBase * LimbsValue(Tail(limbs))

ToLimbs(v, n) == [i \in 1..n |-> (v \div (WordBase ^ (i - 1))) % WordBase]

\* gte_modulus, from limb i down.
RECURSIVE Fr_gte_modulus_from(_, _)
Fr_gte_modulus_from(limbs, i) ==
    IF i < 1 THEN TRUE
    ELSE IF limbs[i] > BN254_MODULUS[i] THEN TRUE
    ELSE IF limbs[i] < BN254_MODULUS[i] THEN FALSE
    ELSE Fr_gte_modulus_from(limbs, i - 1)

Fr_gte_modulus(limbs) == Fr_gte_modulus_from(limbs, 4)

\* reduce: while the limbs are not below the modulus, the borrow chain takes
\* the modulus off them.
RECURSIVE Fr_reduce(_)
Fr_reduce(limbs) ==
    IF Fr_gte_modulus(limbs)
    THEN Fr_reduce(ToLimbs(LimbsValue(limbs) - LimbsValue(BN254_MODULUS), 4))
    ELSE limbs

\* The carry propagation of mul over the eight double-width words, which
\* wrap as wrapping_add does; n is indexed from 0 as in the source.
RECURSIVE CarryChain(_, _)
CarryChain(result, i) ==
    IF i > 6 THEN [result EXCEPT ![7] = @ % WordBase]
    ELSE CarryChain([result EXCEPT
                        ![i] = @ % WordBase,
                        ![i + 1] = (@ + result[i] \div WordBase) % (WordBase * WordBase)],
                    i + 1)

\* The loop of fast_reduce, at most ten times: the modulus, shifted so that
\* its top limb meets the highest limb of n that is not zero, is taken off n
\* by a borrow chain over the limbs s..7; a borrow is left over exactly when
\* the number those limbs spell is below the modulus, and then n is kept and
\* the loop ends.
RECURSIVE FastReduceLoop(_, _)
FastReduceLoop(n, iteration) ==
    IF iteration >= 10 THEN n
    ELSE IF n[4] = 0 /\ n[5] = 0 /\ n[6] = 0 /\ n[7] = 0 THEN n
    ELSE LET shift == CHOOSE i \in 4..7 : n[i] # 0 /\ \A j \in (i + 1)..7 : n[j] = 0
             s == shift - 3
             upper == LimbsValue([i \in 1..(8 - s) |-> n[s + i - 1]])
         IN  IF upper < LimbsValue(BN254_MODULUS) THEN n
             ELSE FastReduceLoop(
                      [i \in 0..7 |->
                          IF i < s THEN n[i]
                          ELSE ToLimbs(upper - LimbsValue(BN254_MODULUS), 8 - s)[i - s + 1]],
                      iteration + 1)

Fr_fast_reduce(wide) ==
    LET n == FastReduceLoop([i \in 0..7 |-> wide[i] % WordBase], 0)
    IN  Fr_reduce(<<n[0], n[1], n[2], n[3]>>)

\* mul: the products of the limbs summed by position in double-width words,
\* the carries, then fast_reduce.
Fr_mul(a, b) ==
    LET result == [k \in 0..7 |->
                      LET pairs == {ij \in (0..3) \X (0..3) : ij[1] + ij[2] = k}
                      IN  SumOver([ij \in pairs |-> a[ij[1] + 1] * b[ij[2] + 1]], pairs)
                              % (WordBase * WordBase)]
    IN  Fr_fast_reduce(CarryChain(result, 0))

\* Field elements: small ones, around the powers of the limb base, and the
\* largest.
FrChoices ==
    {0, 1, 2, 3, WordBase - 1, WordBase, WordBase ^ 2 - 1, WordBase ^ 2, WordBase ^ 2 + 1,
     WordBase ^ 3 - 1, WordBase ^ 3, 700,
     LimbsValue(BN254_MODULUS) - 2, LimbsValue(BN254_MODULUS) - 1}

\* The two factors of one multiplication are drawn at the start.
InitMul ==
    /\ pool = [d \in Denominations |-> InitialPool(d)]
    /\ lamports = [a \in Accounts |->
                     IF a \in {PoolKey(d) : d \in Denominations} THEN PoolRentReserve ELSE 0]
    /\ nullifier = {}
    /\ leaf_account = {}
    /\ commitment = [k \in CommitKeys |-> NoAccount]
    /\ intent = [i \in IntentIds |-> NoAccount]
    /\ now = 0
    /\ production = FALSE
    /\ inflight = [t \in TxIds |-> NoTx]
    /\ deposited = [d \in Denominations |-> <<>>]
    /\ saved = [d \in Denominations |-> <<>>]
    /\ spent = [d \in Denominations |-> <<>>]
    /\ \E a \in FrChoices : \E b \in FrChoices :
           last = Outcome("input", 0, [a |-> a, b |-> b], "Ok", FALSE, FALSE)

FrMul ==
    /\ last.op = "input"
    /\ last' = Outcome("Fr_mul", 0,
                       [a |-> last.key.a, b |-> last.key.b,
                        product |-> LimbsValue(Fr_mul(ToLimbs(last.key.a, 4),
                                                      ToLimbs(last.key.b, 4)))],
                       "Ok", FALSE, FALSE)
    /\ UNCHANGED <<pool, lamports, nullifier, leaf_account, commitment, intent, now,
                   production, inflight, deposited, saved, spent>>

NextMul == FrMul

SpecMul == InitMul /\ [][NextMul]_vars

----------------------------------------------------------------------------
(* C40 *)

\* C40 as stated: for all field elements a and b below the modulus p,
\* Fr::mul(a, b) is (a * b) mod p, a value below p.
C40_MulIsProductModP ==
    last.op = "Fr_mul"
        => /\ last.key.product < LimbsValue(BN254_MODULUS)
           /\ last.key.product = (last.key.a * last.key.b) % LimbsValue(BN254_MODULUS)

====
